---- MODULE Spec2Model ----
(***************************************************************************)
(* A model of the GA4 "new users" dashboard (src/src/lib/ga.ts).           *)
(*                                                                         *)
(* JavaScript strings on which the code computes character by character    *)
(* (property ids, resource names, URIs, environment variables) are         *)
(* sequences of one-character strings.  The JavaScript value null or       *)
(* undefined of such a string is NullStr.  Messages and labels that the    *)
(* code only compares or copies are TLA+ strings.                          *)
(*                                                                         *)
(* An async function runs atomically from one await to the next, so every  *)
(* action below is one such stretch of code: the continuation of one       *)
(* await, up to the next await of every function it runs.                  *)
(***************************************************************************)
EXTENDS Integers, Sequences, FiniteSets, TLC

----------------------------------------------------------------------------
(* Bounds of the model *)

\* the longest catalog of the inputs with every kind of answer (RichWorlds)
MaxProps == 2
\* the longest item list and the largest limit of runLimited on its own (SpecRL)
MaxItems == 4
MaxLimit == 3
\* the largest count of a report row given to the functions on their own (SpecFn)
MaxValue == 3
\* the loads a page starts (SpecClient)
MaxLoads == 3

----------------------------------------------------------------------------
(* Strings *)

NullStr == <<"<null>">>

Truthy(s) == s # NullStr /\ s # <<>>

Min(a, b) == IF a <= b THEN a ELSE b
Max(a, b) == IF a >= b THEN a ELSE b

\* The letters of Basic Latin and of the Latin-1 Supplement (U+0000..U+00FF)
\* that toLowerCase changes, and what it changes them to: A-Z, and U+00C0
\* to U+00DE without the multiplication sign U+00D7.  The strings of the model
\* are over these two blocks and the white space of IsSpace.
UpperCase ==
    <<"A", "B", "C", "D", "E", "F", "G", "H", "I", "J", "K", "L", "M",
      "N", "O", "P", "Q", "R", "S", "T", "U", "V", "W", "X", "Y", "Z",
      "À", "Á", "Â", "Ã", "Ä", "Å", "Æ", "Ç", "È", "É", "Ê", "Ë", "Ì", "Í", "Î",
      "Ï", "Ð", "Ñ", "Ò", "Ó", "Ô", "Õ", "Ö", "Ø", "Ù", "Ú", "Û", "Ü", "Ý", "Þ">>

LowerCase ==
    <<"a", "b", "c", "d", "e", "f", "g", "h", "i", "j", "k", "l", "m",
      "n", "o", "p", "q", "r", "s", "t", "u", "v", "w", "x", "y", "z",
      "à", "á", "â", "ã", "ä", "å", "æ", "ç", "è", "é", "ê", "ë", "ì", "í", "î",
      "ï", "ð", "ñ", "ò", "ó", "ô", "õ", "ö", "ø", "ù", "ú", "û", "ü", "ý", "þ">>

ToLowerChar(c) ==
    IF \E i \in 1..Len(UpperCase) : UpperCase[i] = c
    THEN LowerCase[CHOOSE i \in 1..Len(UpperCase) : UpperCase[i] = c]
    ELSE c

\* String.prototype.toLowerCase
ToLowerCase(s) == [i \in 1..Len(s) |-> ToLowerChar(s[i])]

StartsWith(s, p) == Len(s) >= Len(p) /\ SubSeq(s, 1, Len(p)) = p

Drop(s, k) == SubSeq(s, k + 1, Len(s))

\* The code points trim() removes: WhiteSpace and LineTerminator of
\* ECMAScript.  TAB, LF, VT, FF, CR, SPACE, NO-BREAK SPACE, OGHAM SPACE MARK
\* and the byte order mark U+FEFF are written as themselves; the others
\* (EN QUAD to HAIR SPACE, LINE and PARAGRAPH SEPARATOR, NARROW NO-BREAK
\* SPACE, MEDIUM MATHEMATICAL SPACE, IDEOGRAPHIC SPACE) by their code point.
WhiteSpace ==
    {"\t", "\n", "", "\f", "\r", " ", " ", " ", "﻿",
     "U+2000", "U+2001", "U+2002", "U+2003", "U+2004", "U+2005", "U+2006",
     "U+2007", "U+2008", "U+2009", "U+200A", "U+2028", "U+2029", "U+202F",
     "U+205F", "U+3000"}

IsSpace(c) == c \in WhiteSpace

RECURSIVE TrimStart(_)
TrimStart(s) ==
    IF s # <<>> /\ IsSpace(s[1]) THEN TrimStart(Tail(s)) ELSE s

RECURSIVE TrimEnd(_)
TrimEnd(s) ==
    IF s # <<>> /\ IsSpace(s[Len(s)])
    THEN TrimEnd(SubSeq(s, 1, Len(s) - 1))
    ELSE s

\* String.prototype.trim
Trim(s) == TrimEnd(TrimStart(s))

\* String.prototype.split(sep) for a one-character separator:
\* the pieces between the separators, empty pieces included
RECURSIVE SplitFrom(_, _, _)
SplitFrom(s, sep, piece) ==
    IF s = <<>> THEN <<piece>>
    ELSE IF s[1] = sep THEN <<piece>> \o SplitFrom(Tail(s), sep, <<>>)
    ELSE SplitFrom(Tail(s), sep, Append(piece, s[1]))

Split(s, sep) == SplitFrom(s, sep, <<>>)

SeqToSet(s) == {s[i] : i \in 1..Len(s)}

RECURSIVE Flatten(_)
Flatten(ss) == IF ss = <<>> THEN <<>> ELSE ss[1] \o Flatten(Tail(ss))

----------------------------------------------------------------------------
(* Pure helpers of ga.ts *)

HttpScheme == <<"h", "t", "t", "p", ":", "/", "/">>
HttpsScheme == <<"h", "t", "t", "p", "s", ":", "/", "/">>

\* value.replace(/^https?:\/\//, "")
StripScheme(value) ==
    IF StartsWith(value, HttpsScheme) THEN Drop(value, Len(HttpsScheme))
    ELSE IF StartsWith(value, HttpScheme) THEN Drop(value, Len(HttpScheme))
    ELSE value

\* value.replace(/\/$/, "")
StripTrailingSlash(value) ==
    IF value # <<>> /\ value[Len(value)] = "/"
    THEN SubSeq(value, 1, Len(value) - 1)
    ELSE value

normalizeUriNoLower(value) == StripTrailingSlash(StripScheme(value))

normalizeUri(value) == ToLowerCase(StripTrailingSlash(StripScheme(value)))

DEFAULT_ERROR == "Unexpected response from Google APIs."

\* a thrown value: [isError |-> BOOLEAN, message |-> STRING]
withErrorMessageRaw(error) == error.message

withErrorMessage(error) ==
    IF error.isError /\ error.message # "" THEN error.message ELSE DEFAULT_ERROR

DefaultBlockedId == <<"5", "0", "8", "2", "9", "5", "0", "1", "4">>

DEFAULT_BLOCKLIST == {DefaultBlockedId}

NonEmpty(piece) == piece # <<>>

\* raw.split(",").map((value) => value.trim()).filter(Boolean)
EnvIds(raw) ==
    SelectSeq([i \in 1..Len(Split(raw, ",")) |-> Trim(Split(raw, ",")[i])], NonEmpty)

\* the allowlist as [set |-> BOOLEAN, ids |-> set of ids]: set is FALSE for null
getAllowlist(raw) ==
    IF ~Truthy(raw) THEN [set |-> FALSE, ids |-> {}]
    ELSE IF Len(EnvIds(raw)) # 0 THEN [set |-> TRUE, ids |-> SeqToSet(EnvIds(raw))]
    ELSE [set |-> FALSE, ids |-> {}]

getBlocklistNoDefault(raw) ==
    IF ~Truthy(raw) THEN {} ELSE SeqToSet(EnvIds(raw))

getBlocklist(raw) ==
    IF ~Truthy(raw) THEN DEFAULT_BLOCKLIST
    ELSE DEFAULT_BLOCKLIST \cup SeqToSet(EnvIds(raw))

----------------------------------------------------------------------------
(* The remote APIs' responses and the functions that read them *)

\* A thrown value of fetchJson: the Error of a non-2xx response carries a
\* message; a rejection of fetch itself may carry none.
ApiError == [isError |-> TRUE, message |-> "Google API error 403 Forbidden."]
BareError == [isError |-> TRUE, message |-> ""]
BadRequestError == [isError |-> TRUE, message |-> "Google API error 400 Bad Request."]

\* A paginated listing of the remote is a function from the page token of the
\* request ("" for none) to [ok, items, next]: next is the nextPageToken of
\* the response, "" when empty or absent.  A listing follows the tokens from
\* "" and answers [ok, items, error, requests].
\* a faulty listing that ends with its first page
ListFirstPage(remote, pageToken) ==
    [ok |-> remote[pageToken].ok,
     items |-> remote[pageToken].items,
     error |-> remote[pageToken].error,
     requests |-> 1]

RECURSIVE ListAllPages(_, _)
ListAllPages(remote, pageToken) ==
    LET data == remote[pageToken] IN
    IF ~data.ok
    THEN [ok |-> FALSE, items |-> <<>>, error |-> data.error, requests |-> 1]
    ELSE IF data.next = ""
    THEN [ok |-> TRUE, items |-> data.items, error |-> ApiError, requests |-> 1]
    ELSE LET rest == ListAllPages(remote, data.next) IN
         [ok |-> rest.ok,
          items |-> IF rest.ok THEN data.items \o rest.items ELSE <<>>,
          error |-> rest.error,
          requests |-> 1 + rest.requests]

\* A listing in progress: the local variables of its do-while loop while it
\* awaits the page requested with pageToken ("" for none).
NewListing == [pageToken |-> "", items |-> <<>>]

AwaitedPage(remote, listing) == remote[listing.pageToken]

\* the awaited page is answered with a nextPageToken: `while (pageToken)`
HasNextPage(remote, listing) ==
    AwaitedPage(remote, listing).ok /\ AwaitedPage(remote, listing).next # ""

\* one turn of the loop after its await, up to the request of the next page
NextPage(remote, listing) ==
    [pageToken |-> AwaitedPage(remote, listing).next,
     items |-> listing.items \o AwaitedPage(remote, listing).items]

\* the listing once the last page it awaits is answered: [ok, items, error]
ListingResult(remote, listing) ==
    IF AwaitedPage(remote, listing).ok
    THEN [ok |-> TRUE, items |-> listing.items \o AwaitedPage(remote, listing).items,
          error |-> ApiError]
    ELSE [ok |-> FALSE, items |-> <<>>, error |-> AwaitedPage(remote, listing).error]

\* the page tokens of the requests of a listing, in order ("" for none)
RECURSIVE PageTokens(_, _)
PageTokens(remote, pageToken) ==
    IF ~remote[pageToken].ok \/ remote[pageToken].next = ""
    THEN <<pageToken>>
    ELSE <<pageToken>> \o PageTokens(remote, remote[pageToken].next)

\* propertyName.split("/").pop()
LastSegment(propertyName) ==
    Split(propertyName, "/")[Len(Split(propertyName, "/"))]

\* one entry of accountSummaries[].propertySummaries[]:
\* [property |-> string or NullStr, displayName |-> string or NullStr]
PropertyIdOf(propertySummary) ==
    LastSegment(IF propertySummary.property = NullStr THEN <<>>
                ELSE propertySummary.property)

HasPropertyId(propertySummary) == PropertyIdOf(propertySummary) # <<>>

ToSummary(propertySummary) ==
    [propertyId |-> PropertyIdOf(propertySummary),
     displayName |-> IF propertySummary.displayName = NullStr
                     THEN PropertyIdOf(propertySummary)
                     ELSE propertySummary.displayName]

\* the items of the account-summaries pages are account summaries, each the
\* sequence of its property summaries
SummariesOf(accountSummaries) ==
    LET kept == SelectSeq(Flatten(accountSummaries), HasPropertyId)
    IN [i \in 1..Len(kept) |-> ToSummary(kept[i])]

listPropertySummaries(remote) ==
    LET listing == ListAllPages(remote, "")
    IN [ok |-> listing.ok,
        error |-> listing.error,
        requests |-> listing.requests,
        summaries |-> IF listing.ok THEN SummariesOf(listing.items) ELSE <<>>]

listDataStreams(remote) == ListAllPages(remote, "")

\* a data stream: [type |-> STRING, web |-> BOOLEAN (webStreamData present),
\*                 defaultUri, measurementId |-> string or NullStr]
IsWebStream(stream) == stream.type = "WEB_DATA_STREAM" \/ stream.web

HasDefaultUri(stream) == stream.web /\ Truthy(stream.defaultUri)

\* [found |-> FALSE] for null, else the WebStreamInfo
pickWebStream(streams) ==
    LET webStreams == SelectSeq(streams, IsWebStream)
        withUri == SelectSeq(webStreams, HasDefaultUri)
        preferred == IF withUri # <<>> THEN withUri[1] ELSE webStreams[1]
    IN IF webStreams = <<>>
       THEN [found |-> FALSE, defaultUri |-> NullStr, measurementId |-> NullStr]
       ELSE [found |-> TRUE,
             defaultUri |-> IF preferred.web THEN preferred.defaultUri ELSE NullStr,
             measurementId |-> IF preferred.web THEN preferred.measurementId
                               ELSE NullStr]

\* pct of a NewUsersDelta: null, or the quotient delta / previous kept as
\* numerator and denominator
NullPct == [isNull |-> TRUE, num |-> 0, den |-> 1]

PctUnchecked(delta, previous) == [isNull |-> FALSE, num |-> delta, den |-> previous]

Pct(delta, previous) ==
    IF previous = 0 THEN NullPct
    ELSE [isNull |-> FALSE, num |-> delta, den |-> previous]

NewUsersDelta(current, previous) ==
    [current |-> current,
     previous |-> previous,
     delta |-> current - previous,
     pct |-> Pct(current - previous, previous)]

\* a report row: [dims |-> sequence of labels, metrics |-> sequence of numbers]
RowLabel(row) == IF Len(row.dims) >= 1 THEN row.dims[1] ELSE "<undefined>"

RowValue(row) == IF Len(row.metrics) >= 1 THEN row.metrics[1] ELSE 0

\* a faulty loop in which the first row of a label wins
RECURSIVE TagMatchFirst(_, _)
TagMatchFirst(rows, acc) ==
    IF rows = <<>> THEN acc
    ELSE LET rest == TagMatchFirst(Tail(rows), acc)
         IN IF RowLabel(rows[1]) = "date_range_0"
            THEN [rest EXCEPT !.current = RowValue(rows[1])]
            ELSE IF RowLabel(rows[1]) = "date_range_1"
            THEN [rest EXCEPT !.previous = RowValue(rows[1])]
            ELSE rest

\* the for loop of fetchNewUsers: [current, previous] after the rows
RECURSIVE TagMatch(_, _)
TagMatch(rows, acc) ==
    IF rows = <<>> THEN acc
    ELSE TagMatch(Tail(rows),
                  IF RowLabel(rows[1]) = "date_range_0"
                  THEN [acc EXCEPT !.current = RowValue(rows[1])]
                  ELSE IF RowLabel(rows[1]) = "date_range_1"
                  THEN [acc EXCEPT !.previous = RowValue(rows[1])]
                  ELSE acc)

\* a faulty fetchNewUsers without the rule of the single row
fetchNewUsersTagOnly(rows) ==
    LET tagged == TagMatch(rows, [current |-> 0, previous |-> 0])
    IN NewUsersDelta(tagged.current, tagged.previous)

\* fetchNewUsers after a successful runReport response with these rows
fetchNewUsersOf(rows) ==
    LET tagged == TagMatch(rows, [current |-> 0, previous |-> 0])
        totals ==
            IF Len(rows) = 0 THEN [current |-> 0, previous |-> 0]
            ELSE IF Len(rows) = 1 /\ Len(rows[1].dims) = 0 /\ Len(rows[1].metrics) >= 2
            THEN [current |-> rows[1].metrics[1], previous |-> rows[1].metrics[2]]
            ELSE tagged
    IN NewUsersDelta(totals.current, totals.previous)

----------------------------------------------------------------------------
(* Dates *)

\* A Date at midnight UTC is the number of its day, counted from 1970-01-01.
\* The civil date of a day number, as Date.prototype.getUTCFullYear,
\* getUTCMonth + 1 and getUTCDate give it.
CivilOf(day) ==
    LET z == day + 719468
        era == z \div 146097
        doe == z - era * 146097
        yoe == (doe - doe \div 1460 + doe \div 36524 - doe \div 146096) \div 365
        doy == doe - (365 * yoe + yoe \div 4 - yoe \div 100)
        mp == (5 * doy + 2) \div 153
        d == doy - (153 * mp + 2) \div 5 + 1
        m == IF mp < 10 THEN mp + 3 ELSE mp - 9
    IN [year |-> yoe + era * 400 + (IF m <= 2 THEN 1 ELSE 0), month |-> m, day |-> d]

\* Date.UTC(year, month - 1, day) as a day number
DayOf(year, month, day) ==
    LET y == IF month <= 2 THEN year - 1 ELSE year
        era == y \div 400
        yoe == y - era * 400
        doy == (153 * (IF month > 2 THEN month - 3 ELSE month + 9) + 2) \div 5 + day - 1
        doe == yoe * 365 + yoe \div 4 - yoe \div 100 + doy
    IN era * 146097 + doe - 719468

DigitChars == <<"0", "1", "2", "3", "4", "5", "6", "7", "8", "9">>

IsDigit(c) == \E i \in 1..10 : DigitChars[i] = c

DigitValue(c) == (CHOOSE i \in 1..10 : DigitChars[i] = c) - 1

\* String(n).padStart(2, "0") for 0 <= n <= 99
Pad2(n) == <<DigitChars[(n \div 10) + 1], DigitChars[(n % 10) + 1]>>

\* String(year) for 1000 <= year <= 9999
Year4(year) == Pad2(year \div 100) \o Pad2(year % 100)

\* Number(text) for a string of digits
RECURSIVE NumberOf(_)
NumberOf(text) ==
    IF text = <<>> THEN 0
    ELSE NumberOf(SubSeq(text, 1, Len(text) - 1)) * 10 + DigitValue(text[Len(text)])

addDays(date, amount) == date + amount

formatDate(date) ==
    Year4(CivilOf(date).year) \o <<"-">> \o Pad2(CivilOf(date).month)
        \o <<"-">> \o Pad2(CivilOf(date).day)

\* formatDate of an Invalid Date
InvalidDateText == <<"N", "a", "N", "-", "N", "a", "N", "-", "N", "a", "N">>

parseDateDimension(value) ==
    IF Len(value) = 8 /\ \A i \in 1..8 : IsDigit(value[i])
    THEN SubSeq(value, 1, 4) \o <<"-">> \o SubSeq(value, 5, 6) \o <<"-">>
             \o SubSeq(value, 7, 8)
    ELSE value

parseIsoDate(value) ==
    DayOf(NumberOf(Split(value, "-")[1]), NumberOf(Split(value, "-")[2]),
          NumberOf(Split(value, "-")[3]))

\* WINDOW_DAYS holds three keys; any other key reads undefined
WindowKeys == {"d1", "d7", "d28"}

WINDOW_DAYS(windowKey) ==
    CASE windowKey = "d1" -> 1
      [] windowKey = "d7" -> 7
      [] windowKey = "d28" -> 28

HasWindowDays(windowKey) == windowKey \in WindowKeys

\* Array.from({ length: days }, ...): no date for an undefined length
buildDateList(startDate, windowKey) ==
    IF HasWindowDays(windowKey)
    THEN [index \in 1..WINDOW_DAYS(windowKey) |->
             formatDate(addDays(parseIsoDate(startDate), index - 1))]
    ELSE <<>>

DateRange(startDate, endDate) == [startDate |-> startDate, endDate |-> endDate]

\* getDateRanges on UTC day today.  With days undefined, -(days - 1) is NaN
\* and every date computed from it is an Invalid Date.
getDateRanges(windowKey, today) ==
    IF HasWindowDays(windowKey)
    THEN LET days == WINDOW_DAYS(windowKey)
             currentEnd == addDays(today, -1)
             currentStart == addDays(currentEnd, -(days - 1))
             previousEnd == addDays(currentStart, -1)
             previousStart == addDays(previousEnd, -(days - 1))
         IN [current |-> DateRange(formatDate(currentStart), formatDate(currentEnd)),
             previous |-> DateRange(formatDate(previousStart), formatDate(previousEnd))]
    ELSE [current |-> DateRange(InvalidDateText, formatDate(addDays(today, -1))),
          previous |-> DateRange(InvalidDateText, InvalidDateText)]

SeriesRowCompact(row) ==
    [date |-> IF row.dim = NullStr THEN <<>> ELSE row.dim, value |-> row.metric]

\* a raw row of a series report: [dim |-> string or NullStr, metric |-> number]
SeriesRow(row) ==
    [date |-> parseDateDimension(IF row.dim = NullStr THEN <<>> ELSE row.dim),
     value |-> row.metric]

\* fetchNewUsersSeries after a successful response with these rows
SeriesRowsOf(rows) == [i \in 1..Len(rows) |-> SeriesRow(rows[i])]

\* new Map(rows.map(...)).get(date) ?? 0: the last row of a date wins
MapGet(rows, date) ==
    LET hits == {i \in 1..Len(rows) : rows[i].date = date}
    IN IF hits = {} THEN 0
       ELSE rows[CHOOSE i \in hits : \A j \in hits : j <= i].value

\* a faulty total: the number of the points
SumSeqCount(numbers) == Len(numbers)

RECURSIVE SumSeq(_)
SumSeq(numbers) ==
    IF numbers = <<>> THEN 0 ELSE numbers[1] + SumSeq(Tail(numbers))

buildSeriesByDate(currentRange, previousRange, currentRows, previousRows, windowKey) ==
    LET currentDates == buildDateList(currentRange.startDate, windowKey)
        series == [index \in 1..Len(currentDates) |->
                     [date |-> currentDates[index],
                      current |-> MapGet(currentRows, currentDates[index]),
                      previous |-> MapGet(previousRows, currentDates[index])]]
    IN [series |-> series,
        currentTotal |-> SumSeq([i \in 1..Len(series) |-> series[i].current]),
        previousTotal |-> SumSeq([i \in 1..Len(series) |-> series[i].previous])]

buildSeries(currentRange, previousRange, currentRows, previousRows, windowKey) ==
    LET currentDates == buildDateList(currentRange.startDate, windowKey)
        previousDates == buildDateList(previousRange.startDate, windowKey)
        series == [index \in 1..Len(currentDates) |->
                     [date |-> currentDates[index],
                      current |-> MapGet(currentRows, currentDates[index]),
                      previous |-> MapGet(previousRows, previousDates[index])]]
    IN [series |-> series,
        currentTotal |-> SumSeq([i \in 1..Len(series) |-> series[i].current]),
        previousTotal |-> SumSeq([i \in 1..Len(series) |-> series[i].previous])]

----------------------------------------------------------------------------
(* runLimited *)

\* The state of one call of runLimited(items, limit, worker):
\*   n          items.length
\*   limit      the limit
\*   nextIndex  the shared cursor
\*   runners    runner -> the index whose worker it awaits, or Finished
\*   results    the slots written so far (a function on the written indices)
\*   writes     history: index -> how many times its slot was written
\*   started    the indices for which worker was invoked, in invocation order
\*   rejected   whether a runner rejected
Finished == -1

RunnerCountUnlimited(n, limit) == n

RunnerCount(n, limit) == Max(0, Min(limit, n))

\* faulty runners that all begin with index 0
RLCreateShared(n, limit) ==
    [n |-> n,
     limit |-> limit,
     nextIndex |-> RunnerCount(n, limit),
     runners |-> [r \in 0..(RunnerCount(n, limit) - 1) |-> 0],
     results |-> <<>>,
     writes |-> <<>>,
     started |-> [i \in 1..RunnerCount(n, limit) |-> 0],
     rejected |-> FALSE]

\* the call up to `await Promise.all(runners)`: every runner is created and runs
\* to its first await, claiming one index each
RLCreate(n, limit) ==
    [n |-> n,
     limit |-> limit,
     nextIndex |-> RunnerCount(n, limit),
     runners |-> [r \in 0..(RunnerCount(n, limit) - 1) |-> r],
     results |-> <<>>,
     writes |-> <<>>,
     started |-> [i \in 1..RunnerCount(n, limit) |-> i - 1],
     rejected |-> FALSE]

\* a call that has not been made yet
RLIdle ==
    [n |-> 0, limit |-> 0, nextIndex |-> 0, runners |-> <<>>, results |-> <<>>,
     writes |-> <<>>, started |-> <<>>, rejected |-> FALSE]

RLRunners(st) == DOMAIN st.runners

RLAwaiting(st) == {r \in RLRunners(st) : st.runners[r] # Finished}

\* the indices whose worker invocation has started and not settled
RLInFlight(st) == {st.runners[r] : r \in RLAwaiting(st)}

\* a faulty wait that ends with the first runner that ends
RLAnyFinished(st) == RLRunners(st) = {} \/ RLAwaiting(st) # RLRunners(st)

RLAllFinished(st) == RLAwaiting(st) = {}

\* the runner's next turn of the while loop after its await
RLClaim(st, r) ==
    [st EXCEPT !.nextIndex = st.nextIndex + 1,
               !.runners[r] = IF st.nextIndex >= st.n THEN Finished ELSE st.nextIndex,
               !.started = IF st.nextIndex >= st.n THEN st.started
                           ELSE Append(st.started, st.nextIndex)]

\* results[index] = value
RLStoreAt(st, index, value) ==
    [st EXCEPT !.results = (index :> value) @@ st.results,
               !.writes = IF index \in DOMAIN st.writes
                          THEN [st.writes EXCEPT ![index] = @ + 1]
                          ELSE (index :> 1) @@ st.writes]

\* a faulty store: results.push(value), in completion order
RLSettlePush(st, r, value) ==
    RLClaim(RLStoreAt(st, Cardinality(DOMAIN st.results), value), r)

\* a faulty runner that invokes the worker of each index a second time
RLSettleAgain(st, r, value) ==
    IF Cardinality({k \in 1..Len(st.started) : st.started[k] = st.runners[r]}) = 1
    THEN [RLStoreAt(st, st.runners[r], value) EXCEPT
            !.started = Append(st.started, st.runners[r])]
    ELSE RLClaim(RLStoreAt(st, st.runners[r], value), r)

\* runner r's worker fulfils with value: results[currentIndex] = value, then
\* the next turn of the loop
RLSettle(st, r, value) == RLClaim(RLStoreAt(st, st.runners[r], value), r)

\* runner r's worker rejects: the runner ends, rejected
RLReject(st, r) == [st EXCEPT !.runners[r] = Finished, !.rejected = TRUE]

----------------------------------------------------------------------------
(* State *)

VARIABLES
    \* runLimited on its own
    rlItems,        \* the items of the call
    rl,             \* the state of the call
    rlPhase,        \* "running", "resolved" or "rejected"
    rlReturn,       \* the array the call resolved with
    rlOrder,        \* history: the indices in the order their workers fulfilled
    \* the inputs of a request: its parameters, the environment variables and
    \* the remote APIs' answers
    world,
    \* getDashboardData
    pc,             \* where the request is
    catalogListing, \* listPropertySummaries in progress
    filtered,       \* filteredSummaries
    streamListings, \* runner of the stream stage -> its listDataStreams in progress
    rl1,            \* the runLimited call of the stream stage
    rl2,            \* the runLimited call of the report stage
    errorRows,
    reportTargets,
    response,       \* the properties of the DashboardResponse
    thrown,         \* the message of the error thrown to the caller
    calls,          \* the remote requests issued so far
    \* getPropertyDetail
    dpc,            \* where the request is
    dlisting,       \* listDataStreams of getPropertyMetadata in progress
    dproperty,      \* the property metadata resolved
    dfetch,         \* the two series fetches: "idle", "pending", "fulfilled", "rejected"
    dfirst,         \* the series fetch that rejected first, or "none"
    dresponse,      \* the PropertyDetailResponse
    dthrown,        \* the message of the error thrown to the route handler
    dcalls,         \* the remote requests issued so far
    \* one function of the program applied on its own
    fpc,            \* "input" before the call, "done" after it
    fout,           \* what the call returned
    \* a client page: Home, PropertyDetailClient
    requestIdRef,   \* requestIdRef.current
    pageData,       \* data: the payload displayed
    pageError,      \* error: the message displayed
    pageLoading,    \* loading
    inFlight,       \* history: request id -> the window of a load not yet completed
    settled         \* history: request id -> how its load completed

rlVars == <<rlItems, rl, rlPhase, rlReturn, rlOrder>>
dashVars == <<pc, catalogListing, filtered, streamListings, rl1, rl2, errorRows,
              reportTargets, response, thrown, calls>>
detailVars == <<dpc, dlisting, dproperty, dfetch, dfirst, dresponse, dthrown, dcalls>>
fnVars == <<fpc, fout>>
clientVars == <<requestIdRef, pageData, pageError, pageLoading, inFlight, settled>>
vars == <<world, rlVars, dashVars, detailVars, fnVars, clientVars>>

\* requests of getDashboardData: catalog counts the page requests of the
\* account summaries; streams, pages and reports count per property id the
\* stream listings begun, their page requests and the summary requests
NoCalls ==
    [token |-> 0, catalog |-> 0, streams |-> <<>>, pages |-> <<>>, reports |-> <<>>]

\* requests of getPropertyDetail: streams counts the page requests of the
\* stream listing
NoDetailCalls == [token |-> 0, metadata |-> 0, streams |-> 0, series |-> 0]

NoWorld == [none |-> TRUE]

RLUnused ==
    /\ rlItems = <<>>
    /\ rl = RLIdle
    /\ rlPhase = "unused"
    /\ rlReturn = <<>>
    /\ rlOrder = <<>>

DashUnused ==
    /\ pc = "unused"
    /\ catalogListing = NewListing
    /\ filtered = <<>>
    /\ streamListings = <<>>
    /\ rl1 = RLIdle
    /\ rl2 = RLIdle
    /\ errorRows = <<>>
    /\ reportTargets = <<>>
    /\ response = <<>>
    /\ thrown = ""
    /\ calls = NoCalls

NoFetches == [current |-> "idle", previous |-> "idle"]

NoResponse == [none |-> TRUE]

FnUnused ==
    /\ fpc = "unused"
    /\ fout = NoResponse

NoData == [none |-> TRUE]

ClientUnused ==
    /\ requestIdRef = 0
    /\ pageData = NoData
    /\ pageError = "<null>"
    /\ pageLoading = FALSE
    /\ inFlight = <<>>
    /\ settled = <<>>

DetailUnused ==
    /\ dpc = "unused"
    /\ dlisting = NewListing
    /\ dproperty = NoResponse
    /\ dfetch = NoFetches
    /\ dfirst = "none"
    /\ dresponse = NoResponse
    /\ dthrown = ""
    /\ dcalls = NoDetailCalls

----------------------------------------------------------------------------
(* SpecRL: runLimited(items, limit, worker) on its own, with a worker that  *)
(* answers the pair of its two arguments, or rejects                        *)

ItemValues == {"a", "b"}

ItemLists == UNION {[1..n -> ItemValues] : n \in 0..MaxItems}

worker(item, index) == <<item, index>>

InitRL ==
    /\ rlItems \in ItemLists
    /\ \E limit \in 1..MaxLimit : rl = RLCreate(Len(rlItems), limit)
    /\ rlPhase = "running"
    /\ rlReturn = <<>>
    /\ rlOrder = <<>>
    /\ world = NoWorld
    /\ DashUnused
    /\ DetailUnused
    /\ FnUnused
    /\ ClientUnused

\* the worker awaited by runner r fulfils
WorkerFulfils(r) ==
    /\ r \in RLAwaiting(rl)
    /\ rl' = RLSettle(rl, r, worker(rlItems[rl.runners[r] + 1], rl.runners[r]))
    /\ rlOrder' = Append(rlOrder, rl.runners[r])
    /\ UNCHANGED <<rlItems, rlPhase, rlReturn, world, dashVars, detailVars, fnVars, clientVars>>

\* the worker awaited by runner r rejects: the exception leaves the runner's
\* async function, whose promise rejects; the call itself has not rejected yet
WorkerRejects(r) ==
    /\ r \in RLAwaiting(rl)
    /\ rl' = RLReject(rl, r)
    /\ UNCHANGED <<rlItems, rlPhase, rlReturn, rlOrder, world, dashVars, detailVars, fnVars, clientVars>>

\* the continuation of `await Promise.all(runners)` after a runner rejected:
\* Promise.all rejects with the first rejection and the exception leaves
\* runLimited; it runs in a later turn than the runner's rejection, and the
\* other runners go on before and after it
RLRejects ==
    /\ rlPhase = "running"
    /\ rl.rejected
    /\ rlPhase' = "rejected"
    /\ UNCHANGED <<rlItems, rl, rlReturn, rlOrder, world, dashVars, detailVars, fnVars, clientVars>>

\* the continuation of `await Promise.all(runners)` after every runner
\* fulfilled; return results
RLResolve ==
    /\ rlPhase = "running"
    /\ RLAllFinished(rl)
    /\ ~rl.rejected
    /\ rlPhase' = "resolved"
    /\ rlReturn' = rl.results
    /\ UNCHANGED <<rlItems, rl, rlOrder, world, dashVars, detailVars, fnVars, clientVars>>

NextRL ==
    \/ \E r \in RLRunners(rl) : WorkerFulfils(r)
    \/ \E r \in RLRunners(rl) : WorkerRejects(r)
    \/ RLRejects
    \/ RLResolve

SpecRL == InitRL /\ [][NextRL]_vars

\* every worker invocation settles, and the continuation of
\* `await Promise.all(runners)` runs once Promise.all has settled
RLFairness ==
    /\ \A r \in 0..(MaxLimit - 1) : WF_vars(WorkerFulfils(r) \/ WorkerRejects(r))
    /\ WF_vars(RLRejects)
    /\ WF_vars(RLResolve)

SpecRLLive == InitRL /\ [][NextRL]_vars /\ RLFairness

----------------------------------------------------------------------------
(* getDashboardData: the functions of its body *)

DashLimit == 5

NoError == "<null>"

ErrorSet(error) == error # NoError /\ error # ""

NullUsers == [isNull |-> TRUE]

NullResult == [isNull |-> TRUE]

\* summaries.filter(allowlist.has) when there is an allowlist, then
\* filter(!blocklist.has)
InAllowlist(allowlist, summary) ==
    ~allowlist.set \/ summary.propertyId \in allowlist.ids

FilterSummariesAllowOnly(summaries, allowlist, blocklist) ==
    SelectSeq(summaries, LAMBDA summary : InAllowlist(allowlist, summary))

FilterSummaries(summaries, allowlist, blocklist) ==
    SelectSeq(SelectSeq(summaries, LAMBDA summary : InAllowlist(allowlist, summary)),
              LAMBDA summary : summary.propertyId \notin blocklist)

\* What a worker's promise settles with: fulfilled with value, or rejected
\* with the thrown error.
Fulfilled(value) == [threw |-> FALSE, value |-> value, error |-> ApiError]

Rejected(error) == [threw |-> TRUE, value |-> NullResult, error |-> error]

NoWebStream == [found |-> FALSE, defaultUri |-> NullStr, measurementId |-> NullStr]

StreamResult(summary, webStream, error) ==
    [isNull |-> FALSE, summary |-> summary, webStream |-> webStream, error |-> error]

\* the worker without its try/catch
StreamWorkerNoCatch(summary, listing) ==
    IF listing.ok
    THEN IF ~pickWebStream(listing.items).found
         THEN Fulfilled(NullResult)
         ELSE Fulfilled(StreamResult(summary, pickWebStream(listing.items), NoError))
    ELSE Rejected(listing.error)

\* the worker without `if (!webStream) return null`
StreamWorkerNoNullCheck(summary, listing) ==
    IF listing.ok
    THEN Fulfilled(StreamResult(summary, pickWebStream(listing.items), NoError))
    ELSE Fulfilled(StreamResult(summary, NoWebStream, withErrorMessage(listing.error)))

\* the worker of the stream stage, given what listDataStreams did
StreamWorker(summary, listing) ==
    IF listing.ok
    THEN IF ~pickWebStream(listing.items).found
         THEN Fulfilled(NullResult)
         ELSE Fulfilled(StreamResult(summary, pickWebStream(listing.items), NoError))
    ELSE Fulfilled(StreamResult(summary, NoWebStream, withErrorMessage(listing.error)))

\* streamResults as a sequence, in index order
ResultList(st) == [i \in 1..st.n |-> st.results[i - 1]]

IsErrorResult(result) == ~result.isNull /\ ErrorSet(result.error)

IsTargetResult(result) == ~result.isNull /\ ~ErrorSet(result.error)

ErrorRowOf(result) ==
    [propertyId |-> result.summary.propertyId,
     displayName |-> result.summary.displayName,
     defaultUri |-> NullStr,
     newUsers |-> NullUsers,
     error |-> result.error]

\* the for loop over streamResults
ErrorRowsOf(results) ==
    LET errors == SelectSeq(results, IsErrorResult)
    IN [i \in 1..Len(errors) |-> ErrorRowOf(errors[i])]

\* faulty targets: every property that has a result
ReportTargetsAll(results) == SelectSeq(results, LAMBDA result : ~result.isNull)

ReportTargetsOf(results) == SelectSeq(results, IsTargetResult)

\* result.webStream?.defaultUri ?? null
TargetUri(result) ==
    IF result.webStream.found THEN result.webStream.defaultUri ELSE NullStr

DashboardProperty(result, newUsers, error) ==
    [propertyId |-> result.summary.propertyId,
     displayName |-> result.summary.displayName,
     defaultUri |-> TargetUri(result),
     newUsers |-> newUsers,
     error |-> error]

\* the worker whose catch reports counts of 0 beside the error
ReportWorkerZeroUsers(result, report) ==
    IF report.ok
    THEN Fulfilled(DashboardProperty(result, fetchNewUsersOf(report.rows), NoError))
    ELSE Fulfilled(DashboardProperty(result, NewUsersDelta(0, 0),
                                     withErrorMessage(report.error)))

\* the worker whose catch leaves error null
ReportWorkerNoMessage(result, report) ==
    IF report.ok
    THEN Fulfilled(DashboardProperty(result, fetchNewUsersOf(report.rows), NoError))
    ELSE Fulfilled(DashboardProperty(result, NullUsers, NoError))

\* the worker of the report stage, given the answer to runReport
ReportWorker(result, report) ==
    IF report.ok
    THEN Fulfilled(DashboardProperty(result, fetchNewUsersOf(report.rows), NoError))
    ELSE Fulfilled(DashboardProperty(result, NullUsers, withErrorMessage(report.error)))

\* a.newUsers?.current ?? -1
SortValue(row) == IF row.newUsers = NullUsers THEN -1 ELSE row.newUsers.current

\* Array.prototype.sort is stable: a row goes behind the rows that do not
\* sort after it
RECURSIVE InsertRow(_, _)
InsertRow(sorted, row) ==
    IF sorted = <<>> THEN <<row>>
    ELSE IF SortValue(row) - SortValue(sorted[1]) <= 0
    THEN <<sorted[1]>> \o InsertRow(Tail(sorted), row)
    ELSE <<row>> \o sorted

RECURSIVE SortRowsFrom(_, _)
SortRowsFrom(rows, sorted) ==
    IF rows = <<>> THEN sorted
    ELSE SortRowsFrom(Tail(rows), InsertRow(sorted, rows[1]))

SortRowsUnsorted(rows) == rows

\* [...reportRows, ...errorRows].sort((a, b) => bValue - aValue), given the
\* concatenation
SortRows(rows) == SortRowsFrom(rows, <<>>)

\* the for loop over sortedProperties
RECURSIVE DedupeFrom(_, _, _)
DedupeFrom(rows, seenDomains, deduped) ==
    IF rows = <<>> THEN deduped
    ELSE IF ~Truthy(rows[1].defaultUri)
    THEN DedupeFrom(Tail(rows), seenDomains, Append(deduped, rows[1]))
    ELSE IF normalizeUri(rows[1].defaultUri) \in seenDomains
    THEN DedupeFrom(Tail(rows), seenDomains, deduped)
    ELSE DedupeFrom(Tail(rows),
                    seenDomains \cup {normalizeUri(rows[1].defaultUri)},
                    Append(deduped, rows[1]))

Dedupe(rows) == DedupeFrom(rows, {}, <<>>)

\* one more request about each of these ids
RECURSIVE Bump(_, _)
Bump(count, ids) ==
    IF ids = <<>> THEN count
    ELSE Bump(IF ids[1] \in DOMAIN count
              THEN [count EXCEPT ![ids[1]] = @ + 1]
              ELSE (ids[1] :> 1) @@ count,
              Tail(ids))

CountOf(count, id) == IF id \in DOMAIN count THEN count[id] ELSE 0

\* the indices whose worker the step from st to next started
NewlyStarted(st, next) ==
    [i \in 1..(Len(next.started) - Len(st.started)) |->
        next.started[Len(st.started) + i]]

SummaryIds(summaries, indices) ==
    [i \in 1..Len(indices) |-> summaries[indices[i] + 1].propertyId]

TargetIds(targets, indices) ==
    [i \in 1..Len(indices) |-> targets[indices[i] + 1].summary.propertyId]

----------------------------------------------------------------------------
(* The inputs: environment variables and the answers of the remote APIs *)

Digits == <<"1", "2", "3", "4", "5", "6", "7", "8", "9">>

PropertyId(k) == <<Digits[k]>>

ResourceName(id) == <<"p", "r", "o", "p", "e", "r", "t", "i", "e", "s", "/">> \o id

CatalogEntry(id) == [property |-> ResourceName(id), displayName |-> <<"S">> \o id]

Page(items, next) == [ok |-> TRUE, items |-> items, next |-> next, error |-> ApiError]

FailedPage(error) == [ok |-> FALSE, items |-> <<>>, next |-> "", error |-> error]

OnePage(items) == "" :> Page(items, "")

TwoPages(first, second) == ("" :> Page(first, "t1")) @@ ("t1" :> Page(second, ""))

Failing(error) == "" :> FailedPage(error)

FailingSecond(first, error) == ("" :> Page(first, "t1")) @@ ("t1" :> FailedPage(error))

WebStream(uri) ==
    [type |-> "WEB_DATA_STREAM", web |-> TRUE, defaultUri |-> uri,
     measurementId |-> <<"G">>]

AppStream ==
    [type |-> "ANDROID_APP_DATA_STREAM", web |-> FALSE, defaultUri |-> NullStr,
     measurementId |-> NullStr]

UriA1 == HttpsScheme \o <<"é", "A", ".", "c", "o", "m", "/">>
UriA2 == HttpScheme \o <<"É", "a", ".", "c", "o", "m">>
UriB == HttpsScheme \o <<"b", ".", "c", "o", "m">>

\* answers to the data-stream listing of one property
StreamsFailing == {Failing(ApiError), FailingSecond(<<AppStream>>, BareError)}
StreamsNoWeb == {OnePage(<<AppStream>>)}
StreamsWeb ==
    {OnePage(<<WebStream(NullStr)>>),
     TwoPages(<<AppStream>>, <<WebStream(UriA1)>>),
     OnePage(<<WebStream(<<>>), WebStream(UriA2)>>),
     OnePage(<<WebStream(UriB)>>)}

ReportRow(label, value) == [dims |-> <<label>>, metrics |-> <<value>>]

Report(rows) == [ok |-> TRUE, rows |-> rows, error |-> ApiError]

FailedReport(error) == [ok |-> FALSE, rows |-> <<>>, error |-> error]

\* answers to the runReport request of one property
Reports ==
    {FailedReport(ApiError),
     Report(<<ReportRow("date_range_0", 2), ReportRow("date_range_1", 1)>>),
     Report(<<ReportRow("date_range_0", 1)>>)}

DefaultReport == Report(<<ReportRow("date_range_0", 1)>>)

\* what the remote answers about one property
Behaviour(streams, report) == [streams |-> streams, report |-> report]

RichBehaviours ==
    {Behaviour(s, DefaultReport) : s \in StreamsFailing \cup StreamsNoWeb}
    \cup {Behaviour(s, r) : s \in StreamsWeb, r \in Reports}

PlainBehaviours ==
    {Behaviour(OnePage(<<AppStream>>), DefaultReport),
     Behaviour(OnePage(<<WebStream(NullStr)>>), DefaultReport)}

World(creds, token, allowRaw, blockRaw, catalog, ids, behaviour) ==
    [creds |-> creds,
     token |-> token,
     allowRaw |-> allowRaw,
     blockRaw |-> blockRaw,
     catalog |-> catalog,
     streams |-> [id \in SeqToSet(ids) |->
                    behaviour[CHOOSE i \in 1..Len(ids) : ids[i] = id].streams],
     reports |-> [id \in SeqToSet(ids) |->
                    behaviour[CHOOSE i \in 1..Len(ids) : ids[i] = id].report]]

FirstIds(n) == [k \in 1..n |-> PropertyId(k)]

Entries(ids) == [k \in 1..Len(ids) |-> CatalogEntry(ids[k])]

\* catalogs of up to MaxProps properties, with every answer about each
RichWorlds ==
    UNION {{World(TRUE, "ok", NullStr, NullStr, OnePage(<<Entries(FirstIds(n))>>),
                  FirstIds(n), behaviour) :
                behaviour \in [1..n -> RichBehaviours]} : n \in 0..MaxProps}

WebOk == Behaviour(OnePage(<<WebStream(NullStr)>>), DefaultReport)

\* requests that fail before the fan-out
FailingWorlds ==
    {World(FALSE, "ok", NullStr, NullStr, OnePage(<<Entries(FirstIds(1))>>),
           FirstIds(1), <<WebOk>>),
     World(TRUE, "fail", NullStr, NullStr, OnePage(<<Entries(FirstIds(1))>>),
           FirstIds(1), <<WebOk>>),
     World(TRUE, "empty", NullStr, NullStr, OnePage(<<Entries(FirstIds(1))>>),
           FirstIds(1), <<WebOk>>),
     World(TRUE, "ok", NullStr, NullStr, Failing(ApiError), FirstIds(1), <<WebOk>>),
     World(TRUE, "ok", NullStr, NullStr,
           FailingSecond(<<Entries(FirstIds(1))>>, BareError), FirstIds(1), <<WebOk>>)}

\* values of GA_PROPERTY_ALLOWLIST and GA_PROPERTY_BLOCKLIST, with white space
\* of several kinds around the ids: a no-break space and a vertical tab,
\* a tab, a byte order mark and a line separator
AllowRaws ==
    {NullStr,
     <<>>,
     <<" ", ",">>,
     PropertyId(1) \o <<",", " ", " ">> \o PropertyId(2) \o <<"">>,
     PropertyId(1) \o <<",">> \o DefaultBlockedId,
     PropertyId(3)}

BlockRaws ==
    {NullStr,
     <<>>,
     PropertyId(2),
     <<" ">> \o PropertyId(1) \o <<"\t", ",", "﻿">> \o PropertyId(3) \o <<"U+2028">>}

FilterIds == <<PropertyId(1), PropertyId(2), DefaultBlockedId, PropertyId(3)>>

\* two pages and three accounts: an entry without property, one whose resource
\* name ends in a slash and one without displayName among them
FilterCatalog ==
    TwoPages(<<<<CatalogEntry(PropertyId(1)),
                 [property |-> NullStr, displayName |-> <<"X">>]>>,
               <<[property |-> ResourceName(PropertyId(2)), displayName |-> NullStr]>>>>,
             <<<<CatalogEntry(DefaultBlockedId),
                 [property |-> ResourceName(<<>>), displayName |-> <<"Y">>],
                 CatalogEntry(PropertyId(3))>>>>)

\* every pair of lists over one catalog whose properties all report
FilterWorlds ==
    {World(TRUE, "ok", allowRaw, blockRaw, FilterCatalog, FilterIds,
           [k \in 1..Len(FilterIds) |-> WebOk]) :
        allowRaw \in AllowRaws, blockRaw \in BlockRaws}

\* catalogs longer than the limit of the fan-out
FanProps == DashLimit + 1

FanWorlds ==
    {World(TRUE, "ok", NullStr, NullStr, OnePage(<<Entries(FirstIds(FanProps))>>),
           FirstIds(FanProps), behaviour) :
        behaviour \in [1..FanProps -> PlainBehaviours]}

Worlds == RichWorlds \cup FailingWorlds \cup FilterWorlds \cup FanWorlds

----------------------------------------------------------------------------
(* Spec: one request served by getDashboardData *)

Init ==
    /\ world \in Worlds
    /\ pc = "start"
    /\ catalogListing = NewListing
    /\ filtered = <<>>
    /\ streamListings = <<>>
    /\ rl1 = RLIdle
    /\ rl2 = RLIdle
    /\ errorRows = <<>>
    /\ reportTargets = <<>>
    /\ response = <<>>
    /\ thrown = ""
    /\ calls = NoCalls
    /\ RLUnused
    /\ DetailUnused
    /\ FnUnused
    /\ ClientUnused

\* getAccessToken up to `await client.authorize()`
DashboardCalled ==
    /\ pc = "start"
    /\ IF world.creds
       THEN /\ pc' = "token"
            /\ calls' = [calls EXCEPT !.token = @ + 1]
            /\ UNCHANGED thrown
       ELSE /\ pc' = "threw"
            /\ thrown' = "Missing GA_CLIENT_EMAIL or GA_PRIVATE_KEY environment variables."
            /\ UNCHANGED calls
    /\ UNCHANGED <<world, catalogListing, filtered, streamListings, rl1, rl2, errorRows,
                   reportTargets, response, rlVars, detailVars, fnVars, clientVars>>

\* authorize() settles; with a token the first page of the catalog is requested
TokenSettles ==
    /\ pc = "token"
    /\ IF world.token = "ok"
       THEN /\ pc' = "catalog"
            /\ calls' = [calls EXCEPT !.catalog = @ + 1]
            /\ UNCHANGED thrown
       ELSE /\ pc' = "threw"
            /\ thrown' = IF world.token = "empty"
                          THEN "Unable to authorize the Google Analytics service account."
                          ELSE "invalid_grant"
            /\ UNCHANGED calls
    /\ UNCHANGED <<world, catalogListing, filtered, streamListings, rl1, rl2, errorRows,
                   reportTargets, response, rlVars, detailVars, fnVars, clientVars>>

\* a page of the catalog is answered with a nextPageToken: the next page is
\* requested
CatalogPageSettles ==
    /\ pc = "catalog"
    /\ HasNextPage(world.catalog, catalogListing)
    /\ catalogListing' = NextPage(world.catalog, catalogListing)
    /\ calls' = [calls EXCEPT !.catalog = @ + 1]
    /\ UNCHANGED <<world, pc, filtered, streamListings, rl1, rl2, errorRows, reportTargets,
                   response, thrown, rlVars, detailVars, fnVars, clientVars>>

\* the last page of the catalog is answered, or a page request fails:
\* listPropertySummaries settles; the summaries are filtered and the stream
\* stage starts, each runner requesting the first page of a listing
CatalogSettles ==
    /\ pc = "catalog"
    /\ ~HasNextPage(world.catalog, catalogListing)
    /\ LET listing == ListingResult(world.catalog, catalogListing)
           kept == FilterSummaries(SummariesOf(listing.items),
                                   getAllowlist(world.allowRaw),
                                   getBlocklist(world.blockRaw))
           stage == RLCreate(Len(kept), DashLimit)
       IN IF listing.ok
          THEN /\ pc' = "stage1"
               /\ filtered' = kept
               /\ rl1' = stage
               /\ streamListings' = [r \in RLRunners(stage) |-> NewListing]
               /\ calls' = [calls EXCEPT
                              !.streams = Bump(@, SummaryIds(kept, stage.started)),
                              !.pages = Bump(@, SummaryIds(kept, stage.started))]
               /\ UNCHANGED thrown
          ELSE /\ pc' = "threw"
               /\ thrown' = listing.error.message
               /\ UNCHANGED <<filtered, rl1, streamListings, calls>>
    /\ UNCHANGED <<world, catalogListing, rl2, errorRows, reportTargets, response,
                   rlVars, detailVars, fnVars, clientVars>>

\* a page of the stream listing awaited by runner r is answered with a
\* nextPageToken: the next page is requested
StreamPageSettles(r) ==
    /\ pc = "stage1"
    /\ r \in RLAwaiting(rl1)
    /\ LET summary == filtered[rl1.runners[r] + 1]
           remote == world.streams[summary.propertyId]
       IN /\ HasNextPage(remote, streamListings[r])
          /\ streamListings' = [streamListings EXCEPT ![r] = NextPage(remote, @)]
          /\ calls' = [calls EXCEPT !.pages = Bump(@, <<summary.propertyId>>)]
    /\ UNCHANGED <<world, pc, catalogListing, filtered, rl1, rl2, errorRows, reportTargets,
                   response, thrown, rlVars, detailVars, fnVars, clientVars>>

\* the stream lookup awaited by runner r settles, with the last page of its
\* listing or a failed page request; the runner stores the result and starts
\* the lookup of the next index
StreamLookupSettles(r) ==
    /\ pc = "stage1"
    /\ r \in RLAwaiting(rl1)
    /\ LET summary == filtered[rl1.runners[r] + 1]
           remote == world.streams[summary.propertyId]
           listing == ListingResult(remote, streamListings[r])
           outcome == StreamWorker(summary, listing)
           next == IF outcome.threw THEN RLReject(rl1, r)
                   ELSE RLSettle(rl1, r, outcome.value)
       IN /\ ~HasNextPage(remote, streamListings[r])
          /\ rl1' = next
          /\ streamListings' = [streamListings EXCEPT ![r] = NewListing]
          /\ calls' = [calls EXCEPT
                         !.streams = Bump(@, SummaryIds(filtered, NewlyStarted(rl1, next))),
                         !.pages = Bump(@, SummaryIds(filtered, NewlyStarted(rl1, next)))]
          /\ pc' = IF outcome.threw THEN "threw" ELSE pc
          /\ thrown' = IF outcome.threw THEN outcome.error.message ELSE thrown
    /\ UNCHANGED <<world, catalogListing, filtered, rl2, errorRows, reportTargets, response,
                   rlVars, detailVars, fnVars, clientVars>>

\* the stream stage resolves; error rows and report targets are split and the
\* report stage starts
StreamStageResolves ==
    /\ pc = "stage1"
    /\ RLAllFinished(rl1)
    /\ LET targets == ReportTargetsOf(ResultList(rl1))
           stage == RLCreate(Len(targets), DashLimit)
       IN /\ errorRows' = ErrorRowsOf(ResultList(rl1))
          /\ reportTargets' = targets
          /\ rl2' = stage
          /\ calls' = [calls EXCEPT !.reports = Bump(@, TargetIds(targets, stage.started))]
    /\ pc' = "stage2"
    /\ UNCHANGED <<world, catalogListing, filtered, streamListings, rl1, response, thrown,
                   rlVars, detailVars, fnVars, clientVars>>

\* the summary fetch awaited by runner r settles
ReportSettles(r) ==
    /\ pc = "stage2"
    /\ r \in RLAwaiting(rl2)
    /\ LET target == reportTargets[rl2.runners[r] + 1]
           outcome == ReportWorker(target, world.reports[target.summary.propertyId])
           next == IF outcome.threw THEN RLReject(rl2, r)
                   ELSE RLSettle(rl2, r, outcome.value)
       IN /\ rl2' = next
          /\ calls' = [calls EXCEPT
                         !.reports = Bump(@, TargetIds(reportTargets, NewlyStarted(rl2, next)))]
          /\ pc' = IF outcome.threw THEN "threw" ELSE pc
          /\ thrown' = IF outcome.threw THEN outcome.error.message ELSE thrown
    /\ UNCHANGED <<world, catalogListing, filtered, streamListings, rl1, errorRows,
                   reportTargets, response, rlVars, detailVars, fnVars, clientVars>>

\* the report stage resolves; the rows are sorted, deduplicated and returned
ReportStageResolves ==
    /\ pc = "stage2"
    /\ RLAllFinished(rl2)
    /\ response' = Dedupe(SortRows(ResultList(rl2) \o errorRows))
    /\ pc' = "done"
    /\ UNCHANGED <<world, catalogListing, filtered, streamListings, rl1, rl2, errorRows,
                   reportTargets, thrown, calls, rlVars, detailVars, fnVars, clientVars>>

Next ==
    \/ DashboardCalled
    \/ TokenSettles
    \/ CatalogPageSettles
    \/ CatalogSettles
    \/ \E r \in RLRunners(rl1) : StreamPageSettles(r)
    \/ \E r \in RLRunners(rl1) : StreamLookupSettles(r)
    \/ StreamStageResolves
    \/ \E r \in RLRunners(rl2) : ReportSettles(r)
    \/ ReportStageResolves

Spec == Init /\ [][Next]_vars

----------------------------------------------------------------------------
(* SpecDetail: one request served by the property route and getPropertyDetail *)

NoParam == "<null>"

\* WINDOW_VALUES of the property route
DetailWindowValues == {"d1", "d7", "d28", "d90", "d180", "d365"}

\* WINDOW_VALUES of the dashboard route
DashboardWindowValues == {"d1", "d7", "d28"}

\* searchParams.get("window") ?? "d7", replaced by "d7" when not a window value
RouteWindow(windowParam, values) ==
    IF windowParam # NoParam /\ windowParam \in values THEN windowParam ELSE "d7"

ExcludedMessage == "Property is excluded from the dashboard."

NotIncludedMessage == "Property is not included in GA_PROPERTY_ALLOWLIST."

\* the two checks that return before any request: the error of the response,
\* or NoError
DetailPolicyBlocklistOnly(propertyId, allowlist, blocklist) ==
    IF propertyId \in blocklist THEN ExcludedMessage ELSE NoError

DetailPolicy(propertyId, allowlist, blocklist) ==
    IF propertyId \in blocklist THEN ExcludedMessage
    ELSE IF allowlist.set /\ propertyId \notin allowlist.ids THEN NotIncludedMessage
    ELSE NoError

FallbackPropertyBlank(propertyId) ==
    [propertyId |-> propertyId, displayName |-> NullStr, defaultUri |-> NullStr]

FallbackProperty(propertyId) ==
    [propertyId |-> propertyId, displayName |-> propertyId, defaultUri |-> NullStr]

ErrorResponseFallback(windowKey, property, error) ==
    [window |-> windowKey, property |-> FallbackProperty(property.propertyId),
     summary |-> NullUsers, series |-> <<>>, error |-> error]

ErrorResponse(windowKey, property, error) ==
    [window |-> windowKey, property |-> property, summary |-> NullUsers,
     series |-> <<>>, error |-> error]

\* getPropertyMetadata, given the answers to its two requests
PropertyMetadata(propertyId, property, listing) ==
    [propertyId |-> propertyId,
     displayName |-> IF property.displayName = NullStr THEN propertyId
                     ELSE property.displayName,
     defaultUri |-> IF pickWebStream(listing.items).found
                    THEN pickWebStream(listing.items).defaultUri
                    ELSE NullStr]

\* the summary of a detail response, from the totals of the series
DetailSummary(currentTotal, previousTotal) ==
    [current |-> currentTotal,
     previous |-> previousTotal,
     delta |-> currentTotal - previousTotal,
     pct |-> Pct(currentTotal - previousTotal, previousTotal)]

\* the response built from the two series
SeriesResponse(windowKey, property, ranges, currentRows, previousRows) ==
    LET built == buildSeries(ranges.current, ranges.previous, currentRows,
                             previousRows, windowKey)
    IN [window |-> windowKey,
        property |-> property,
        summary |-> DetailSummary(built.currentTotal, built.previousTotal),
        series |-> built.series,
        error |-> NoError]

\* What the remote answers to a series report over a range: a failure for a
\* failing answer or a range that is no date, else one row per cell of the
\* answer that lies in the range, dated in the compact form YYYYMMDD, and
\* then the answer's other rows.
Compact(dateText) == SelectSeq(dateText, IsDigit)

RangeDays(range) == parseIsoDate(range.endDate) - parseIsoDate(range.startDate) + 1

SeriesAnswer(answer, range) ==
    IF range.startDate = InvalidDateText \/ range.endDate = InvalidDateText
    THEN [ok |-> FALSE, rows |-> <<>>, error |-> BadRequestError]
    ELSE IF ~answer.ok THEN [ok |-> FALSE, rows |-> <<>>, error |-> answer.error]
    ELSE LET cells == SelectSeq(answer.cells, LAMBDA cell : cell.offset < RangeDays(range))
         IN [ok |-> TRUE,
             rows |-> [i \in 1..Len(cells) |->
                          [dim |-> Compact(formatDate(addDays(parseIsoDate(range.startDate),
                                                              cells[i].offset))),
                           metric |-> cells[i].value]] \o answer.others,
             error |-> ApiError]

Cell(offset, value) == [offset |-> offset, value |-> value]

Series(cells, others) == [ok |-> TRUE, cells |-> cells, others |-> others, error |-> ApiError]

FailedSeries(error) == [ok |-> FALSE, cells |-> <<>>, others |-> <<>>, error |-> error]

SeriesAnswers ==
    {FailedSeries(ApiError),
     Series(<<>>, <<>>),
     Series(<<Cell(0, 30)>>, <<>>),
     Series(<<Cell(0, 3), Cell(2, 1), Cell(6, 4)>>, <<[dim |-> NullStr, metric |-> 5]>>)}

Metadata(displayName) == [ok |-> TRUE, displayName |-> displayName, error |-> ApiError]

FailedMetadata(error) == [ok |-> FALSE, displayName |-> NullStr, error |-> error]

MetadataAnswers == {Metadata(<<"S">>), Metadata(NullStr), FailedMetadata(BareError)}

DetailStreams ==
    {Failing(ApiError),
     OnePage(<<AppStream>>),
     OnePage(<<WebStream(UriA1)>>),
     TwoPages(<<AppStream>>, <<WebStream(UriB)>>),
     FailingSecond(<<WebStream(UriB)>>, BareError)}

\* 2026-01-01, 2024-03-01 and 2025-01-03 as day numbers
Todays == {DayOf(2026, 1, 1), DayOf(2024, 3, 1), DayOf(2025, 1, 3)}

DetailWorld(propertyId, windowParam, today, allowRaw, blockRaw, creds, token,
            metadata, streams, current, previous) ==
    [propertyId |-> propertyId, windowParam |-> windowParam, today |-> today,
     allowRaw |-> allowRaw, blockRaw |-> blockRaw, creds |-> creds, token |-> token,
     metadata |-> metadata, streams |-> streams,
     series |-> [current |-> current, previous |-> previous]]

\* every requested id under every pair of lists, the remote answering
PolicyWorlds ==
    {DetailWorld(propertyId, "d1", DayOf(2026, 1, 1), allowRaw, blockRaw, TRUE, "ok",
                 Metadata(<<"S">>), OnePage(<<WebStream(UriA1)>>),
                 Series(<<Cell(0, 30)>>, <<>>), Series(<<>>, <<>>)) :
        propertyId \in {PropertyId(1), PropertyId(2), PropertyId(3), DefaultBlockedId},
        allowRaw \in AllowRaws, blockRaw \in BlockRaws}

\* every answer of the remote to an admitted request
RemoteWorlds ==
    {DetailWorld(PropertyId(1), "d7", DayOf(2026, 1, 1), NullStr, NullStr,
                 w[1], w[2], w[3], w[4], w[5], w[6]) :
        w \in BOOLEAN \X {"ok", "fail", "empty"} \X MetadataAnswers \X DetailStreams
               \X SeriesAnswers \X SeriesAnswers}

\* every window parameter on several days
WindowWorlds ==
    {DetailWorld(PropertyId(1), windowParam, today, NullStr, NullStr, TRUE, "ok",
                 Metadata(<<"S">>), OnePage(<<WebStream(UriA1)>>),
                 Series(<<Cell(0, 3), Cell(2, 1), Cell(6, 4)>>, <<>>),
                 Series(<<Cell(0, 30)>>, <<>>)) :
        windowParam \in DetailWindowValues \cup {NoParam, "d30"}, today \in Todays}

DetailWorlds == PolicyWorlds \cup RemoteWorlds \cup WindowWorlds

WindowKey == RouteWindow(world.windowParam, DetailWindowValues)

DetailRanges == getDateRanges(WindowKey, world.today)

InitDetail ==
    /\ world \in DetailWorlds
    /\ dpc = "start"
    /\ dlisting = NewListing
    /\ dproperty = NoResponse
    /\ dfetch = NoFetches
    /\ dfirst = "none"
    /\ dresponse = NoResponse
    /\ dthrown = ""
    /\ dcalls = NoDetailCalls
    /\ RLUnused
    /\ DashUnused
    /\ FnUnused
    /\ ClientUnused

\* the route handler calls getPropertyDetail, which runs to its first await,
\* in getAccessToken, or returns or throws before it
DetailCalled ==
    /\ dpc = "start"
    /\ LET policy == DetailPolicy(world.propertyId, getAllowlist(world.allowRaw),
                                  getBlocklist(world.blockRaw))
       IN IF policy # NoError
          THEN /\ dpc' = "done"
               /\ dresponse' = ErrorResponse(WindowKey, FallbackProperty(world.propertyId),
                                             policy)
               /\ UNCHANGED <<dthrown, dcalls>>
          ELSE IF ~world.creds
          THEN /\ dpc' = "threw"
               /\ dthrown' = "Missing GA_CLIENT_EMAIL or GA_PRIVATE_KEY environment variables."
               /\ UNCHANGED <<dresponse, dcalls>>
          ELSE /\ dpc' = "token"
               /\ dcalls' = [dcalls EXCEPT !.token = @ + 1]
               /\ UNCHANGED <<dresponse, dthrown>>
    /\ UNCHANGED <<dlisting, dproperty, dfetch, dfirst, world, rlVars, dashVars, fnVars,
                   clientVars>>

\* authorize() settles; with a token the property is requested
DetailTokenSettles ==
    /\ dpc = "token"
    /\ IF world.token = "ok"
       THEN /\ dpc' = "metadata"
            /\ dcalls' = [dcalls EXCEPT !.metadata = @ + 1]
            /\ UNCHANGED dthrown
       ELSE /\ dpc' = "threw"
            /\ dthrown' = IF world.token = "empty"
                           THEN "Unable to authorize the Google Analytics service account."
                           ELSE "invalid_grant"
            /\ UNCHANGED dcalls
    /\ UNCHANGED <<dlisting, dproperty, dfetch, dfirst, dresponse, world, rlVars, dashVars,
                   fnVars, clientVars>>

\* the property request of getPropertyMetadata settles; with the property
\* the first page of its data streams is requested
DetailPropertySettles ==
    /\ dpc = "metadata"
    /\ IF world.metadata.ok
       THEN /\ dpc' = "streams"
            /\ dcalls' = [dcalls EXCEPT !.streams = @ + 1]
            /\ UNCHANGED dresponse
       ELSE /\ dpc' = "done"
            /\ dresponse' = ErrorResponse(WindowKey, FallbackProperty(world.propertyId),
                                          withErrorMessage(world.metadata.error))
            /\ UNCHANGED dcalls
    /\ UNCHANGED <<dlisting, dproperty, dfetch, dfirst, dthrown, world, rlVars, dashVars,
                   fnVars, clientVars>>

\* a page of the data streams is answered with a nextPageToken: the next page
\* is requested
DetailStreamsPageSettles ==
    /\ dpc = "streams"
    /\ HasNextPage(world.streams, dlisting)
    /\ dlisting' = NextPage(world.streams, dlisting)
    /\ dcalls' = [dcalls EXCEPT !.streams = @ + 1]
    /\ UNCHANGED <<dpc, dproperty, dfetch, dfirst, dresponse, dthrown, world, rlVars,
                   dashVars, fnVars, clientVars>>

\* the last page of the data streams is answered, or a page request fails:
\* listDataStreams and getPropertyMetadata settle; with the metadata the two
\* series reports are requested
DetailStreamsSettle ==
    /\ dpc = "streams"
    /\ ~HasNextPage(world.streams, dlisting)
    /\ LET listing == ListingResult(world.streams, dlisting)
       IN IF listing.ok
          THEN /\ dpc' = "series"
               /\ dproperty' = PropertyMetadata(world.propertyId, world.metadata, listing)
               /\ dfetch' = [current |-> "pending", previous |-> "pending"]
               /\ dcalls' = [dcalls EXCEPT !.series = @ + 2]
               /\ UNCHANGED dresponse
          ELSE /\ dpc' = "done"
               /\ dresponse' = ErrorResponse(WindowKey, FallbackProperty(world.propertyId),
                                             withErrorMessage(listing.error))
               /\ UNCHANGED <<dproperty, dfetch, dcalls>>
    /\ UNCHANGED <<dlisting, dfirst, dthrown, world, rlVars, dashVars, fnVars, clientVars>>

\* one of the two series reports settles, before or after the response;
\* Promise.all rejects with the first rejection
DetailSeriesSettles(which) ==
    /\ dpc \in {"series", "done"}
    /\ dfetch[which] = "pending"
    /\ LET answer == SeriesAnswer(world.series[which], DetailRanges[which])
       IN /\ dfetch' = [dfetch EXCEPT ![which] = IF answer.ok THEN "fulfilled"
                                                 ELSE "rejected"]
          /\ dfirst' = IF ~answer.ok /\ dfirst = "none" THEN which ELSE dfirst
    /\ UNCHANGED <<dpc, dlisting, dproperty, dresponse, dthrown, dcalls, world, rlVars,
                   dashVars, fnVars, clientVars>>

\* the continuation of `await Promise.all([...])` once it has settled: the
\* response built from the two series, or in the catch block from the first
\* rejection
DetailSeriesResolve ==
    /\ dpc = "series"
    /\ \/ dfirst # "none"
       \/ dfetch = [current |-> "fulfilled", previous |-> "fulfilled"]
    /\ dpc' = "done"
    /\ dresponse' =
          IF dfirst # "none"
          THEN ErrorResponse(WindowKey, dproperty,
                             withErrorMessage(SeriesAnswer(world.series[dfirst],
                                                           DetailRanges[dfirst]).error))
          ELSE SeriesResponse(WindowKey, dproperty, DetailRanges,
                              SeriesRowsOf(SeriesAnswer(world.series.current,
                                                        DetailRanges.current).rows),
                              SeriesRowsOf(SeriesAnswer(world.series.previous,
                                                        DetailRanges.previous).rows))
    /\ UNCHANGED <<dlisting, dproperty, dfetch, dfirst, dthrown, dcalls, world, rlVars,
                   dashVars, fnVars, clientVars>>

NextDetail ==
    \/ DetailCalled
    \/ DetailTokenSettles
    \/ DetailPropertySettles
    \/ DetailStreamsPageSettles
    \/ DetailStreamsSettle
    \/ \E which \in {"current", "previous"} : DetailSeriesSettles(which)
    \/ DetailSeriesResolve

SpecDetail == InitDetail /\ [][NextDetail]_vars

----------------------------------------------------------------------------
(* middleware.ts: Basic authentication in front of / and /api *)

Base64Alphabet ==
    <<"A", "B", "C", "D", "E", "F", "G", "H", "I", "J", "K", "L", "M", "N", "O", "P",
      "Q", "R", "S", "T", "U", "V", "W", "X", "Y", "Z", "a", "b", "c", "d", "e", "f",
      "g", "h", "i", "j", "k", "l", "m", "n", "o", "p", "q", "r", "s", "t", "u", "v",
      "w", "x", "y", "z", "0", "1", "2", "3", "4", "5", "6", "7", "8", "9", "+", "/">>

IsBase64Char(c) == \E i \in 1..64 : Base64Alphabet[i] = c

Base64Value(c) == (CHOOSE i \in 1..64 : Base64Alphabet[i] = c) - 1

\* the characters of the codes 32 to 126; the grave accent, code 96, is
\* written by its code
AsciiPrintable ==
    <<" ", "!", "\"", "#", "$", "%", "&", "'", "(", ")", "*", "+", ",", "-", ".", "/",
      "0", "1", "2", "3", "4", "5", "6", "7", "8", "9", ":", ";", "<", "=", ">", "?",
      "@", "A", "B", "C", "D", "E", "F", "G", "H", "I", "J", "K", "L", "M", "N", "O",
      "P", "Q", "R", "S", "T", "U", "V", "W", "X", "Y", "Z", "[", "\\", "]", "^", "_",
      "\\x96", "a", "b", "c", "d", "e", "f", "g", "h", "i", "j", "k", "l", "m", "n", "o",
      "p", "q", "r", "s", "t", "u", "v", "w", "x", "y", "z", "{", "|", "}", "~">>

\* the character of a byte: itself when printable, else its code after \x
CharOfByte(byte) ==
    IF byte \in 32..126 THEN AsciiPrintable[byte - 31] ELSE "\\x" \o ToString(byte)

ByteOfChar(c) == (CHOOSE i \in 1..95 : AsciiPrintable[i] = c) + 31

\* the bytes of groups of four, and of a last group of two or three, values
\* of six bits
RECURSIVE DecodeValues(_)
DecodeValues(values) ==
    IF Len(values) >= 4
    THEN LET n == values[1] * 262144 + values[2] * 4096 + values[3] * 64 + values[4]
         IN <<n \div 65536, (n \div 256) % 256, n % 256>>
                \o DecodeValues(SubSeq(values, 5, Len(values)))
    ELSE IF Len(values) = 3
    THEN LET n == (values[1] * 4096 + values[2] * 64 + values[3]) \div 4
         IN <<n \div 256, n % 256>>
    ELSE IF Len(values) = 2
    THEN <<(values[1] * 64 + values[2]) \div 16>>
    ELSE <<>>

IsAsciiWhitespace(c) == c \in {" ", "\t", "\n", "\f", "\r"}

\* atob(encoded): [threw |-> BOOLEAN, text |-> the decoded string].  ASCII
\* whitespace is removed; of a length that is a multiple of 4, one or two
\* final "=" are removed; a length of 1 modulo 4 or a character outside the
\* alphabet throws.
atob(encoded) ==
    LET stripped == SelectSeq(encoded, LAMBDA c : ~IsAsciiWhitespace(c))
        n == Len(stripped)
        unpadded ==
            IF n % 4 = 0 /\ n >= 2 /\ stripped[n] = "=" /\ stripped[n - 1] = "="
            THEN SubSeq(stripped, 1, n - 2)
            ELSE IF n % 4 = 0 /\ n >= 1 /\ stripped[n] = "="
            THEN SubSeq(stripped, 1, n - 1)
            ELSE stripped
        bytes == DecodeValues([i \in 1..Len(unpadded) |-> Base64Value(unpadded[i])])
    IN IF Len(unpadded) % 4 = 1 \/ \E i \in 1..Len(unpadded) : ~IsBase64Char(unpadded[i])
       THEN [threw |-> TRUE, text |-> <<>>]
       ELSE [threw |-> FALSE, text |-> [i \in 1..Len(bytes) |-> CharOfByte(bytes[i])]]

\* decoded.indexOf(":"), from 0, or -1
IndexOfColon(text) ==
    IF \E i \in 1..Len(text) : text[i] = ":"
    THEN (CHOOSE i \in 1..Len(text) : text[i] = ":" /\ \A j \in 1..(i - 1) : text[j] # ":") - 1
    ELSE -1

BasicPrefix == <<"b", "a", "s", "i", "c", " ">>

\* middleware(request): "next" or "401", given DASHBOARD_PASSWORD and the
\* authorization header, each a string or NullStr
middlewareAnyPassword(password, authHeader) ==
    IF ~Truthy(password) THEN "next"
    ELSE IF ~Truthy(authHeader) \/ ~StartsWith(ToLowerCase(authHeader), BasicPrefix)
    THEN "401"
    ELSE IF atob(Trim(Drop(authHeader, 6))).threw THEN "401"
    ELSE "next"

middleware(password, authHeader) ==
    IF ~Truthy(password) THEN "next"
    ELSE IF ~Truthy(authHeader) \/ ~StartsWith(ToLowerCase(authHeader), BasicPrefix)
    THEN "401"
    ELSE LET decoded == atob(Trim(Drop(authHeader, 6)))
             separatorIndex == IndexOfColon(decoded.text)
             providedPassword ==
                 IF separatorIndex = -1 THEN <<>>
                 ELSE Drop(decoded.text, separatorIndex + 1)
         IN IF decoded.threw THEN "401"
            ELSE IF providedPassword # password THEN "401"
            ELSE "next"

\* config.matcher: "/" and "/api/:path*"
ApiPrefix == <<"/", "a", "p", "i">>

MatchesMatcher(path) ==
    \/ path = <<"/">>
    \/ path = ApiPrefix
    \/ StartsWith(path, ApiPrefix \o <<"/">>)

\* what becomes of a request: the middleware runs on the paths of the matcher
HandleRequest(password, path, authHeader) ==
    IF MatchesMatcher(path) THEN middleware(password, authHeader) ELSE "next"

----------------------------------------------------------------------------
(* SpecFn: one function of the program applied to one input *)

\* the days from 2023-12-25 to 2024-03-05: a turn of the year and a leap day
FnDays == DayOf(2023, 12, 25)..DayOf(2024, 3, 5)

DateRangeInputs ==
    {[fn |-> "getDateRanges", windowKey |-> windowKey, today |-> today] :
        windowKey \in DetailWindowValues, today \in FnDays}

\* the rows of a summary report: none, one per date range, one for a single
\* range, a repeated label, other labels, a labelled row without metric or
\* with two, and one or two rows without dimension that carry up to three
\* metrics
Untagged(metrics) == [dims |-> <<>>, metrics |-> metrics]

ReportRowLists ==
    {<<>>}
    \cup {<<ReportRow("date_range_0", c), ReportRow("date_range_1", p)>> :
            c \in 0..MaxValue, p \in 0..MaxValue}
    \cup {<<ReportRow("date_range_1", p)>> : p \in 0..MaxValue}
    \cup {<<ReportRow("date_range_0", c)>> : c \in 0..MaxValue}
    \cup {<<Untagged(<<c, p>>)>> : c \in 0..MaxValue, p \in 0..MaxValue}
    \cup {<<Untagged(<<c>>)>> : c \in 0..MaxValue}
    \cup {<<ReportRow("date_range_0", c), ReportRow("date_range_0", p)>> :
            c \in 0..MaxValue, p \in 0..MaxValue}
    \cup {<<ReportRow("date_range_1", p), ReportRow("date_range_2", c),
            ReportRow("date_range_0", c), ReportRow("date_range_1", c)>> :
            c \in 0..MaxValue, p \in 0..MaxValue}
    \cup {<<ReportRow("RESERVED_TOTAL", c)>> : c \in 0..MaxValue}
    \cup {<<[dims |-> <<"date_range_0">>, metrics |-> <<>>],
            ReportRow("date_range_1", p)>> : p \in 0..MaxValue}
    \cup {<<Untagged(<<c, p>>), Untagged(<<p, c>>)>> :
            c \in 0..MaxValue, p \in 0..MaxValue}
    \cup {<<Untagged(<<c, p, c>>)>> : c \in 0..MaxValue, p \in 0..MaxValue}
    \cup {<<Untagged(<<>>)>>}
    \cup {<<[dims |-> <<"date_range_1">>, metrics |-> <<c, p>>]>> :
            c \in 0..MaxValue, p \in 0..MaxValue}

NewUsersInputs == {[fn |-> "fetchNewUsers", rows |-> rows] : rows \in ReportRowLists}

SummaryInputs ==
    {[fn |-> "summary", currentTotal |-> c, previousTotal |-> p] :
        c \in 0..2 * MaxValue, p \in 0..2 * MaxValue}

\* the raw rows of a series report: one row per cell, dated by its offset from
\* the start of the range, and then the other rows
RawRows(answer, range) ==
    [i \in 1..Len(answer.cells) |->
        [dim |-> Compact(formatDate(addDays(parseIsoDate(range.startDate),
                                            answer.cells[i].offset))),
         metric |-> answer.cells[i].value]] \o answer.others

\* daily rows, and rows a report of the range does not hold: a row without
\* date, two rows of one date, a row of the day before the range
SeriesPatterns ==
    {Series(<<>>, <<>>),
     Series(<<Cell(0, 30)>>, <<>>),
     Series(<<Cell(0, 3), Cell(2, 1), Cell(6, 4)>>, <<>>),
     Series(<<Cell(1, 2)>>, <<[dim |-> NullStr, metric |-> 5]>>),
     Series(<<Cell(0, 1), Cell(0, 2)>>, <<>>),
     Series(<<Cell(-1, 7), Cell(0, 1)>>, <<>>)}

BuildSeriesInputs ==
    {[fn |-> "buildSeries", windowKey |-> windowKey, today |-> today,
      current |-> current, previous |-> previous] :
        windowKey \in WindowKeys, today \in {DayOf(2026, 1, 8), DayOf(2024, 3, 2)},
        current \in SeriesPatterns, previous \in SeriesPatterns}

\* btoa, for the headers of the inputs
RECURSIVE EncodeBytes(_)
EncodeBytes(bytes) ==
    IF Len(bytes) >= 3
    THEN LET n == bytes[1] * 65536 + bytes[2] * 256 + bytes[3]
         IN <<Base64Alphabet[n \div 262144 + 1], Base64Alphabet[((n \div 4096) % 64) + 1],
              Base64Alphabet[((n \div 64) % 64) + 1], Base64Alphabet[(n % 64) + 1]>>
                \o EncodeBytes(SubSeq(bytes, 4, Len(bytes)))
    ELSE IF Len(bytes) = 2
    THEN LET n == (bytes[1] * 256 + bytes[2]) * 4
         IN <<Base64Alphabet[n \div 4096 + 1], Base64Alphabet[((n \div 64) % 64) + 1],
              Base64Alphabet[(n % 64) + 1], "=">>
    ELSE IF Len(bytes) = 1
    THEN <<Base64Alphabet[bytes[1] \div 4 + 1], Base64Alphabet[(bytes[1] % 4) * 16 + 1],
           "=", "=">>
    ELSE <<>>

btoa(text) == EncodeBytes([i \in 1..Len(text) |-> ByteOfChar(text[i])])

Passwords == {NullStr, <<>>, <<"p", "w">>, <<"p", ":", "w">>}

Paths ==
    {<<"/">>, ApiPrefix, ApiPrefix \o <<"/", "d">>, ApiPrefix \o <<"s">>, <<"/", "p">>}

Credentials ==
    {<<"u", ":", "p", "w">>, <<":", "p", "w">>, <<"p", "w">>, <<"u", ":", "p", ":", "w">>,
     <<"u", ":", "p", "W">>, <<"u", ":">>, <<"p", "w", ":", "u">>,
     <<"u", "s", "e", "r", ":", "p", "w">>}

Schemes ==
    {<<"B", "a", "s", "i", "c", " ">>, <<"b", "a", "s", "i", "c", " ">>,
     <<"B", "A", "S", "I", "C", " ", " ">>, <<"B", "e", "a", "r", "e", "r", " ">>,
     <<"B", "a", "s", "i", "c">>}

\* the encoded credentials as sent: padded, without the padding, with
\* spaces inside and after, or between a no-break space and a vertical tab
Forms == {"padded", "unpadded", "spaced", "wrapped"}

Sent(encoded, form) ==
    IF form = "unpadded" THEN SelectSeq(encoded, LAMBDA c : c # "=")
    ELSE IF form = "spaced"
    THEN SubSeq(encoded, 1, 2) \o <<" ">> \o SubSeq(encoded, 3, Len(encoded)) \o <<" ">>
    ELSE IF form = "wrapped" THEN <<" ">> \o encoded \o <<"">>
    ELSE encoded

\* headers that are no encoded credentials: a character outside the
\* alphabet, a length of 1 modulo 4, a character after the padding, a
\* vertical tab inside
GarbledHeaders ==
    {<<"B", "a", "s", "i", "c", " ", "!", "!", "!", "!">>,
     <<"B", "a", "s", "i", "c", " ", "d", "T", "p", "w", "d">>,
     <<"B", "a", "s", "i", "c", " ", "d", "T", "p", "w", "d", "w", "=", "=", "x">>,
     <<"B", "a", "s", "i", "c", " ", "d", "T", "", "p", "w", "d", "w", "=", "=">>}

Headers ==
    {[kind |-> "none"], [kind |-> "empty"]}
    \cup {[kind |-> "credentials", scheme |-> scheme, credentials |-> credentials,
           form |-> form] :
            scheme \in Schemes, credentials \in Credentials, form \in Forms}
    \cup {[kind |-> "garbled", text |-> text] : text \in GarbledHeaders}

\* request.headers.get("authorization")
HeaderText(header) ==
    CASE header.kind = "none" -> NullStr
      [] header.kind = "empty" -> <<>>
      [] header.kind = "garbled" -> header.text
      [] header.kind = "credentials" ->
            header.scheme \o Sent(btoa(header.credentials), header.form)

MiddlewareInputs ==
    {[fn |-> "middleware", password |-> password, path |-> path, header |-> header] :
        password \in Passwords, path \in Paths, header \in Headers}

\* listings of up to three pages, of streams or of account summaries: pages
\* without items, a page no token leads to, and a failure of the first, the
\* second or the third request
ThreePages(first, second, third) ==
    ("" :> Page(first, "t1")) @@ ("t1" :> Page(second, "t2")) @@ ("t2" :> Page(third, ""))

FailingThird(first, second, error) ==
    ("" :> Page(first, "t1")) @@ ("t1" :> Page(second, "t2")) @@ ("t2" :> FailedPage(error))

Stray(items) == "t9" :> Page(items, "")

PagedRemotes(a, b, c) ==
    {OnePage(<<>>), OnePage(a), OnePage(a) @@ Stray(c),
     TwoPages(a, b), TwoPages(b, a), TwoPages(<<>>, b), TwoPages(a, b) @@ Stray(c),
     ThreePages(a, b, c), ThreePages(c, <<>>, a \o b),
     Failing(ApiError), FailingSecond(a, BareError), FailingThird(a, b, ApiError)}

StreamListingInputs ==
    {[fn |-> "listDataStreams", remote |-> remote] :
        remote \in PagedRemotes(<<AppStream>>, <<WebStream(UriA1), AppStream>>,
                                <<WebStream(UriB)>>)}

CatalogListingInputs ==
    {[fn |-> "listPropertySummaries", catalog |-> remote] :
        remote \in PagedRemotes(
            <<<<CatalogEntry(PropertyId(1)),
                [property |-> NullStr, displayName |-> <<"X">>]>>>>,
            <<<<[property |-> ResourceName(PropertyId(2)), displayName |-> NullStr]>>,
              <<>>>>,
            <<<<CatalogEntry(PropertyId(3)), CatalogEntry(PropertyId(4))>>>>)}

FnInputs ==
    DateRangeInputs \cup NewUsersInputs \cup SummaryInputs \cup BuildSeriesInputs
        \cup MiddlewareInputs \cup StreamListingInputs \cup CatalogListingInputs

InitFn ==
    /\ world \in FnInputs
    /\ fpc = "input"
    /\ fout = NoResponse
    /\ RLUnused
    /\ DashUnused
    /\ DetailUnused
    /\ ClientUnused

Returns(fn, value) ==
    /\ fpc = "input"
    /\ world.fn = fn
    /\ fpc' = "done"
    /\ fout' = value
    /\ UNCHANGED <<world, rlVars, dashVars, detailVars, clientVars>>

ApplyGetDateRanges ==
    /\ world.fn = "getDateRanges"
    /\ Returns("getDateRanges", getDateRanges(world.windowKey, world.today))

\* fetchNewUsers, its report answered with world.rows
ApplyFetchNewUsers ==
    /\ world.fn = "fetchNewUsers"
    /\ Returns("fetchNewUsers", fetchNewUsersOf(world.rows))

ApplyDetailSummary ==
    /\ world.fn = "summary"
    /\ Returns("summary", DetailSummary(world.currentTotal, world.previousTotal))

\* the two series of getPropertyDetail, their reports answered with the raw
\* rows, and buildSeries on them
ApplyBuildSeries ==
    /\ world.fn = "buildSeries"
    /\ LET ranges == getDateRanges(world.windowKey, world.today)
       IN Returns("buildSeries",
                  buildSeries(ranges.current, ranges.previous,
                              SeriesRowsOf(RawRows(world.current, ranges.current)),
                              SeriesRowsOf(RawRows(world.previous, ranges.previous)),
                              world.windowKey))

\* a request arrives and is let through ("next") or answered with 401
ApplyMiddleware ==
    /\ world.fn = "middleware"
    /\ Returns("middleware",
               [status |-> HandleRequest(world.password, world.path,
                                         HeaderText(world.header))])

\* listDataStreams over a remote: what it answers, and the page tokens of its
\* requests
ApplyListDataStreams ==
    /\ world.fn = "listDataStreams"
    /\ Returns("listDataStreams",
               [ok |-> listDataStreams(world.remote).ok,
                items |-> listDataStreams(world.remote).items,
                tokens |-> PageTokens(world.remote, "")])

ApplyListPropertySummaries ==
    /\ world.fn = "listPropertySummaries"
    /\ Returns("listPropertySummaries",
               [ok |-> listPropertySummaries(world.catalog).ok,
                items |-> listPropertySummaries(world.catalog).summaries,
                tokens |-> PageTokens(world.catalog, "")])

NextFn ==
    \/ ApplyListDataStreams
    \/ ApplyListPropertySummaries
    \/ ApplyMiddleware
    \/ ApplyGetDateRanges
    \/ ApplyFetchNewUsers
    \/ ApplyDetailSummary
    \/ ApplyBuildSeries

SpecFn == InitFn /\ [][NextFn]_vars

----------------------------------------------------------------------------
(* SpecClient: the loads of a client page, Home (loadDashboard) or          *)
(* PropertyDetailClient (loadProperty)                                      *)

\* the windows a load is started for
LoadWindows == {"d7", "d28"}

\* How a load completes:
\*   "ok"          a response with a payload
\*   "okError"     a response whose payload carries an error (the property API)
\*   "http"        a failed response whose payload carries an error string
\*   "httpNoBody"  a failed response without such a payload
\*   "empty"       a response without payload
\*   "network"     fetch rejects with an Error
\*   "abort"       fetch rejects with the DOMException AbortError
Outcomes(page) ==
    {"ok", "http", "httpNoBody", "empty", "network", "abort"}
        \cup (IF page = "property" THEN {"okError"} ELSE {})

Succeeds(outcome) == outcome \in {"ok", "okError"}

\* the payload of the response to a request
Payload(requestId, window, outcome) ==
    [request |-> requestId,
     window |-> window,
     error |-> IF outcome = "okError" THEN "Property is excluded." ELSE NoError]

\* the message of the error thrown in the try block, or of the rejection
ThrownMessage(page, outcome) ==
    CASE outcome = "http" -> "Failed to fetch Google Analytics data."
      [] outcome = "httpNoBody" ->
            IF page = "property" THEN "Failed to load property data."
            ELSE "Failed to load dashboard data."
      [] outcome = "empty" ->
            IF page = "property" THEN "Empty response from the property API."
            ELSE "Empty response from the dashboard API."
      [] outcome = "network" -> "Failed to fetch"

\* faulty completions that do not compare the request id
DataAfterUnchecked(requestId, outcome) ==
    IF Succeeds(outcome)
    THEN Payload(requestId, inFlight[requestId], outcome)
    ELSE pageData

LoadingAfterUnchecked(requestId) == FALSE

\* data after the load of requestId completed
DataAfter(requestId, outcome) ==
    IF Succeeds(outcome) /\ requestId = requestIdRef
    THEN Payload(requestId, inFlight[requestId], outcome)
    ELSE pageData

\* error after the load of requestId completed
ErrorAfter(requestId, outcome) ==
    IF requestId # requestIdRef THEN pageError
    ELSE IF Succeeds(outcome)
    THEN IF world.page = "property"
         THEN Payload(requestId, inFlight[requestId], outcome).error
         ELSE pageError
    ELSE IF outcome = "abort" THEN pageError
    ELSE ThrownMessage(world.page, outcome)

\* loading after the finally block of the load of requestId
LoadingAfter(requestId) ==
    IF requestId = requestIdRef THEN FALSE ELSE pageLoading

ClientWorlds ==
    {[page |-> "dashboard", hasPropertyId |-> TRUE],
     [page |-> "property", hasPropertyId |-> TRUE],
     [page |-> "property", hasPropertyId |-> FALSE]}

InitClient ==
    /\ world \in ClientWorlds
    /\ requestIdRef = 0
    /\ pageData = NoData
    /\ pageError = NoError
    /\ pageLoading = FALSE
    /\ inFlight = <<>>
    /\ settled = <<>>
    /\ RLUnused
    /\ DashUnused
    /\ DetailUnused
    /\ FnUnused

\* loadDashboard(nextWindow) or loadProperty(nextWindow) up to its fetch,
\* called by the effect of a window change, by the interval or by Refresh
Load(nextWindow) ==
    /\ IF ~world.hasPropertyId
       THEN /\ pageError' = "Missing property id."
            /\ UNCHANGED <<requestIdRef, pageLoading, inFlight>>
       ELSE /\ requestIdRef < MaxLoads
            /\ requestIdRef' = requestIdRef + 1
            /\ pageLoading' = TRUE
            /\ pageError' = NoError
            /\ inFlight' = ((requestIdRef + 1) :> nextWindow) @@ inFlight
    /\ UNCHANGED <<pageData, settled, world, rlVars, dashVars, detailVars, fnVars>>

\* the load of requestId from the answer of its fetch to the end of its
\* finally block
Complete(requestId, outcome) ==
    /\ requestId \in DOMAIN inFlight
    /\ pageData' = DataAfter(requestId, outcome)
    /\ pageError' = ErrorAfter(requestId, outcome)
    /\ pageLoading' = LoadingAfter(requestId)
    /\ inFlight' = [id \in DOMAIN inFlight \ {requestId} |-> inFlight[id]]
    /\ settled' = (requestId :> [outcome |-> outcome,
                                 latest |-> requestId = requestIdRef]) @@ settled
    /\ UNCHANGED <<requestIdRef, world, rlVars, dashVars, detailVars, fnVars>>

NextClient ==
    \/ \E nextWindow \in LoadWindows : Load(nextWindow)
    \/ \E requestId \in DOMAIN inFlight :
          \E outcome \in Outcomes(world.page) : Complete(requestId, outcome)

SpecClient == InitClient /\ [][NextClient]_vars

----------------------------------------------------------------------------
(* Claims about the fan-out *)

Stages == {rl1, rl2}

Returned == pc = "done"

ResponseRows == {response[i] : i \in 1..Len(response)}

RowsOf(id) == {row \in ResponseRows : row.propertyId = id}

FilteredIds == {filtered[i].propertyId : i \in 1..Len(filtered)}

StreamLookupFails(id) == ~listDataStreams(world.streams[id]).ok

HasNoWebStream(id) ==
    /\ listDataStreams(world.streams[id]).ok
    /\ ~pickWebStream(listDataStreams(world.streams[id]).items).found

HasWebStream(id) ==
    /\ listDataStreams(world.streams[id]).ok
    /\ pickWebStream(listDataStreams(world.streams[id]).items).found

\* C1: at every moment of either fan-out stage the number of worker
\* invocations that have started and not settled is at most
\* min(limit, number of items), and at most 5.
C1_InFlightBounded ==
    \A st \in Stages :
        /\ Cardinality(RLAwaiting(st)) <= Min(st.limit, st.n)
        /\ Cardinality(RLAwaiting(st)) <= 5
        /\ Cardinality(RLInFlight(st)) = Cardinality(RLAwaiting(st))

\* the report stage of a catalog longer than the limit, with five summary
\* fetches in flight after one has settled
C1_Witness ==
    /\ pc = "stage2"
    /\ rl2.n > 5
    /\ Cardinality(RLAwaiting(rl2)) = 5
    /\ DOMAIN rl2.results # {}
    /\ rl1.n > 5

\* C2: when runLimited resolves, slot i of the result holds the value of
\* worker(items[i], i), for every index i, whatever the order in which the
\* workers fulfilled.
C2_ResultsByIndex ==
    rlPhase = "resolved" =>
        /\ DOMAIN rlReturn = 0..(Len(rlItems) - 1)
        /\ \A i \in 0..(Len(rlItems) - 1) : rlReturn[i] = worker(rlItems[i + 1], i)

\* a call that resolved after its workers fulfilled out of index order
C2_Witness ==
    /\ rlPhase = "resolved"
    /\ Len(rlItems) >= 3
    /\ rlOrder[1] # 0
    /\ \E k \in 1..(Len(rlOrder) - 1) : rlOrder[k] > rlOrder[k + 1]

TokenAcquired == world.creds /\ world.token = "ok"

CatalogListed == listPropertySummaries(world.catalog).ok

\* C3: getDashboardData throws only when the token or the catalog listing
\* fails: with both obtained no stream lookup or summary fetch that fails
\* rejects a fan-out stage or throws, and once both stages have resolved the
\* response is returned.
C3_ThrowsOnlyForTokenOrCatalog ==
    /\ pc = "threw" => ~TokenAcquired \/ ~CatalogListed
    /\ TokenAcquired /\ CatalogListed =>
          /\ ~rl1.rejected
          /\ ~rl2.rejected
          /\ pc \in {"start", "token", "catalog", "stage1", "stage2", "done"}

\* a response returned although a stream lookup and a summary fetch failed
C3_Witness ==
    /\ Returned
    /\ errorRows # <<>>
    /\ \E i \in DOMAIN rl2.results : rl2.results[i].newUsers = NullUsers
    /\ Len(response) = 2

\* C4: a filtered property whose stream lookup fails never gets a summary
\* request, and the returned list holds a row for it with newUsers null and a
\* non-empty error.
C4_StreamFailureRow ==
    \A id \in FilteredIds :
        StreamLookupFails(id) =>
            /\ CountOf(calls.reports, id) = 0
            /\ Returned =>
                  /\ RowsOf(id) # {}
                  /\ \A row \in RowsOf(id) :
                        /\ row.newUsers = NullUsers
                        /\ row.error # NoError
                        /\ row.error # ""

\* a response holding the row of a lookup that failed with no message, beside
\* a row with metrics
C4_Witness ==
    /\ Returned
    /\ \E id \in FilteredIds :
          /\ StreamLookupFails(id)
          /\ listDataStreams(world.streams[id]).error.message = ""
          /\ RowsOf(id) # {}
    /\ \E row \in ResponseRows : row.newUsers # NullUsers

\* C5: a filtered property whose stream lookup succeeds without a web stream
\* never gets a summary request and has no row in the returned list.
C5_NoWebStreamDropped ==
    \A id \in FilteredIds :
        HasNoWebStream(id) =>
            /\ CountOf(calls.reports, id) = 0
            /\ Returned => RowsOf(id) = {}

\* a response with the row of the one property that has a web stream
C5_Witness ==
    /\ Returned
    /\ \E id \in FilteredIds : HasNoWebStream(id) /\ CountOf(calls.streams, id) = 1
    /\ Len(filtered) = 2
    /\ Len(response) = 1
    /\ response[1].newUsers # NullUsers

\* the failure of the summary fetch of a filtered property
ReportFails(id) == HasWebStream(id) /\ ~world.reports[id].ok

\* the message of a failure: that of the error, or the default one when the
\* error carries none
FailureMessage(error) ==
    IF error.message = "" THEN "Unexpected response from Google APIs."
    ELSE error.message

\* the claim's normalization of a site URI: the scheme http:// or https://
\* stripped, one trailing slash stripped, lower-cased
ClaimedSchemes == {HttpScheme, HttpsScheme}

ClaimedDomain(uri) ==
    LET schemes == {p \in ClaimedSchemes : StartsWith(uri, p)}
        rest == IF schemes = {} THEN uri
                ELSE Drop(uri, Len(CHOOSE p \in schemes :
                                     \A q \in schemes : Len(q) <= Len(p)))
        bare == IF rest # <<>> /\ rest[Len(rest)] = "/"
                THEN SubSeq(rest, 1, Len(rest) - 1) ELSE rest
    IN [i \in 1..Len(bare) |-> ToLowerChar(bare[i])]

UriOf(id) == pickWebStream(listDataStreams(world.streams[id]).items).defaultUri

\* C6 as claimed: the returned list holds a row, with newUsers null and the
\* failure message as error, for every property that has a web stream and
\* whose summary fetch fails.
C6_Original ==
    Returned =>
        \A id \in FilteredIds :
            ReportFails(id) =>
                \E row \in RowsOf(id) :
                    /\ row.newUsers = NullUsers
                    /\ row.error = FailureMessage(world.reports[id].error)

\* C6, amended: such a row is in the returned list unless the property has a
\* site URI and the list holds the row of another property of the same
\* normalized domain, which deduplication kept in its place; and every row
\* the list holds for the property is that error row.
C6_ReportFailureRow ==
    Returned =>
        \A id \in FilteredIds :
            ReportFails(id) =>
                /\ CountOf(calls.reports, id) = 1
                /\ \A row \in RowsOf(id) :
                      /\ row.newUsers = NullUsers
                      /\ row.error = FailureMessage(world.reports[id].error)
                /\ \/ RowsOf(id) # {}
                   \/ /\ Truthy(UriOf(id))
                      /\ \E row \in ResponseRows :
                            /\ row.propertyId # id
                            /\ Truthy(row.defaultUri)
                            /\ ClaimedDomain(row.defaultUri) = ClaimedDomain(UriOf(id))

\* a response holding the error row of a failed summary fetch beside a row
\* with metrics
C6_Witness ==
    /\ Returned
    /\ \E id \in FilteredIds : ReportFails(id) /\ RowsOf(id) # {}
    /\ \E row \in ResponseRows : row.newUsers # NullUsers

ClaimedSortValue(row) == IF row.newUsers = NullUsers THEN -1 ELSE row.newUsers.current

\* C7: the returned rows are in non-increasing order of newUsers.current, a
\* row with newUsers null counting as -1, so every row without metrics comes
\* after every row with metrics.

C7_SortedDescending ==
    Returned =>
        /\ \A i, j \in 1..Len(response) :
              i < j => ClaimedSortValue(response[i]) >= ClaimedSortValue(response[j])
        /\ \A i, j \in 1..Len(response) :
              response[i].newUsers = NullUsers /\ response[j].newUsers # NullUsers
                  => j < i

\* a response whose rows are not in the order of the report rows: the second
\* property of the catalog first, and an error row last
C7_Witness ==
    /\ Returned
    /\ Len(response) = 2
    /\ response[1].propertyId = PropertyId(2)
    /\ response[1].newUsers # NullUsers
    /\ \/ response[2].newUsers = NullUsers
       \/ response[2].newUsers.current < response[1].newUsers.current

\* the merged rows in sort order, before deduplication
SortedRows == SortRows(ResultList(rl2) \o errorRows)

SameDomain(a, b) ==
    /\ Truthy(a.defaultUri)
    /\ Truthy(b.defaultUri)
    /\ ClaimedDomain(a.defaultUri) = ClaimedDomain(b.defaultUri)

\* row i of the sorted list has no site URI, or is the first of its domain
FirstOfDomain(sorted, i) ==
    \/ ~Truthy(sorted[i].defaultUri)
    \/ \A j \in 1..(i - 1) : ~SameDomain(sorted[j], sorted[i])

RECURSIVE FirstsFrom(_, _)
FirstsFrom(sorted, i) ==
    IF i > Len(sorted) THEN <<>>
    ELSE (IF FirstOfDomain(sorted, i) THEN <<sorted[i]>> ELSE <<>>)
         \o FirstsFrom(sorted, i + 1)

\* C8: the returned list is the sorted list, in the same order, without the
\* rows whose normalized domain an earlier row has: no two returned rows with
\* a site URI share a normalized domain, and no row without a site URI is
\* removed.
C8_DedupByDomain ==
    Returned =>
        /\ response = FirstsFrom(SortedRows, 1)
        /\ \A i, j \in 1..Len(response) :
              i # j => ~SameDomain(response[i], response[j])
        /\ \A i \in 1..Len(SortedRows) :
              ~Truthy(SortedRows[i].defaultUri) => SortedRows[i] \in ResponseRows

\* two rows whose URIs differ in scheme, case and trailing slash, of which
\* the response holds the first
C8_Witness ==
    /\ Returned
    /\ Len(SortedRows) = 2
    /\ SortedRows[1].defaultUri # SortedRows[2].defaultUri
    /\ Truthy(SortedRows[1].defaultUri)
    /\ response = <<SortedRows[1]>>

\* the ids a list variable configures
ConfiguredIds(raw) == IF Truthy(raw) THEN SeqToSet(EnvIds(raw)) ELSE {}

ClaimedBlocklist == ConfiguredIds(world.blockRaw) \cup {<<"5", "0", "8", "2", "9", "5", "0", "1", "4">>}

ClaimedAllowed(id) ==
    /\ ConfiguredIds(world.allowRaw) = {} \/ id \in ConfiguredIds(world.allowRaw)
    /\ id \notin ClaimedBlocklist

CatalogSummaries == listPropertySummaries(world.catalog).summaries

\* C9: the properties processed are exactly the catalog entries whose id is
\* in the allowlist, when one is configured and not empty, and not in the
\* blocklist (the configured ids with 508295014); no other id, and so no
\* blocklisted id, gets a stream lookup, a summary fetch or an output row.
C9_AllowThenBlock ==
    /\ pc \in {"stage1", "stage2", "done"} =>
          filtered = SelectSeq(CatalogSummaries,
                               LAMBDA summary : ClaimedAllowed(summary.propertyId))
    /\ \A id \in DOMAIN calls.streams \cup DOMAIN calls.reports : ClaimedAllowed(id)
    /\ \A id \in ClaimedBlocklist :
          /\ CountOf(calls.streams, id) = 0
          /\ CountOf(calls.reports, id) = 0
          /\ RowsOf(id) = {}
    /\ \A row \in ResponseRows : ClaimedAllowed(row.propertyId)

\* a response under an allowlist that names the built-in blocked id, which the
\* catalog holds: the other allowed property alone is reported
C9_Witness ==
    /\ Returned
    /\ DefaultBlockedId \in ConfiguredIds(world.allowRaw)
    /\ \E i \in 1..Len(CatalogSummaries) : CatalogSummaries[i].propertyId = DefaultBlockedId
    /\ Len(CatalogSummaries) > Len(filtered)
    /\ Len(response) = 1
    /\ response[1].propertyId = PropertyId(1)

----------------------------------------------------------------------------
(* Claims about the property detail *)

\* the requested id is blocklisted, or an allowlist names ids and not this one
ExcludedByPolicy ==
    \/ world.propertyId \in ClaimedBlocklist
    \/ /\ ConfiguredIds(world.allowRaw) # {}
       /\ world.propertyId \notin ConfiguredIds(world.allowRaw)

\* C10: a request for an id excluded by policy makes no remote call at all
\* (no token, metadata, stream or report request) and returns, at once, a
\* response with summary null, series empty and error set.
C10_ExcludedMakesNoCall ==
    ExcludedByPolicy =>
        /\ dcalls = NoDetailCalls
        /\ dpc \in {"start", "done"}
        /\ dfetch = NoFetches
        /\ dpc = "done" =>
              /\ dresponse.summary = NullUsers
              /\ dresponse.series = <<>>
              /\ dresponse.error \notin {NoError, ""}
              /\ dresponse.property = FallbackProperty(world.propertyId)

\* the response to an id that an allowlist leaves out and no blocklist names
C10_Witness ==
    /\ dpc = "done"
    /\ world.propertyId \notin ClaimedBlocklist
    /\ ConfiguredIds(world.allowRaw) # {}
    /\ world.propertyId \notin ConfiguredIds(world.allowRaw)
    /\ dresponse.error = NotIncludedMessage
    /\ dresponse.summary = NullUsers
    /\ dcalls = NoDetailCalls

\* the token is acquired: both secrets are configured and authorize() answers
\* with a token
DetailTokenOk == world.creds /\ world.token = "ok"

PropertyRequestFails == ~world.metadata.ok

StreamListingFails == ~listDataStreams(world.streams).ok

\* the error with which the metadata step fails: that of the property
\* request, which comes first, or that of the stream listing
MetadataFailure ==
    IF PropertyRequestFails THEN world.metadata.error
    ELSE listDataStreams(world.streams).error

\* C11: when the property request or the stream listing of the metadata step
\* fails, the response carries the fallback property (displayName equal to
\* the id, defaultUri null), summary null, series empty and the failure
\* message as error, and no series request is issued.
C11_MetadataFailureFallback ==
    ~ExcludedByPolicy /\ DetailTokenOk /\ (PropertyRequestFails \/ StreamListingFails) =>
        /\ dcalls.series = 0
        /\ dfetch = NoFetches
        /\ dpc \in {"start", "token", "metadata", "streams", "done"}
        /\ dpc = "done" =>
              /\ dresponse.property = [propertyId |-> world.propertyId,
                                       displayName |-> world.propertyId,
                                       defaultUri |-> NullStr]
              /\ dresponse.summary = NullUsers
              /\ dresponse.series = <<>>
              /\ dresponse.error = FailureMessage(MetadataFailure)

\* the response after the property request failed without a message
C11_Witness ==
    /\ dpc = "done"
    /\ PropertyRequestFails
    /\ dcalls = [token |-> 1, metadata |-> 1, streams |-> 0, series |-> 0]
    /\ dresponse.error = "Unexpected response from Google APIs."
    /\ dresponse.property.displayName = world.propertyId

\* the answer of the remote to a series request fails
SeriesFails(which) == ~SeriesAnswer(world.series[which], DetailRanges[which]).ok

\* the metadata the metadata step resolved: the display name of the property,
\* or its id without one, and the site URI of its web stream
ResolvedMetadata ==
    [propertyId |-> world.propertyId,
     displayName |-> IF world.metadata.displayName = NullStr THEN world.propertyId
                     ELSE world.metadata.displayName,
     defaultUri |-> pickWebStream(listDataStreams(world.streams).items).defaultUri]

\* C12: when either of the two series fetches fails, the response has the
\* metadata resolved before, summary null, series empty and error set,
\* whether or not the other fetch succeeded, before or after it.
C12_SeriesFailureNoPartial ==
    /\ dpc = "done" /\ (\E which \in {"current", "previous"} : dfetch[which] = "rejected") =>
          /\ dresponse.property = ResolvedMetadata
          /\ dresponse.summary = NullUsers
          /\ dresponse.series = <<>>
          /\ dresponse.error \notin {NoError, ""}
    /\ dpc = "done" /\ dcalls.series > 0
          /\ (SeriesFails("current") \/ SeriesFails("previous")) =>
          /\ dresponse.summary = NullUsers
          /\ dresponse.series = <<>>
          /\ dresponse.error \notin {NoError, ""}

\* the current series arrived, then the previous one failed: the response
\* holds the resolved name and no point
C12_Witness ==
    /\ dpc = "done"
    /\ dfetch = [current |-> "fulfilled", previous |-> "rejected"]
    /\ SeriesAnswer(world.series.current, DetailRanges.current).rows # <<>>
    /\ dresponse.property.displayName = <<"S">>
    /\ dresponse.series = <<>>

\* C13: once the id has passed the two checks, getPropertyDetail never throws
\* to the route handler, whichever remote step fails, token acquisition
\* included.
C13_NeverThrows == ~ExcludedByPolicy => dpc # "threw"

\* the window key the detail view accepts for the request, and the length in
\* days claimed for each accepted key
ClaimedWindowKey ==
    IF world.windowParam \in {"d1", "d7", "d28", "d90", "d180", "d365"}
    THEN world.windowParam ELSE "d7"

ClaimedDays(windowKey) ==
    CASE windowKey = "d1" -> 1
      [] windowKey = "d7" -> 7
      [] windowKey = "d28" -> 28
      [] windowKey = "d90" -> 90
      [] windowKey = "d180" -> 180
      [] windowKey = "d365" -> 365

\* the range of this many days that ends on the day before this one
ClaimedRange(days, dayAfter) ==
    [startDate |-> formatDate(dayAfter - days), endDate |-> formatDate(dayAfter - 1)]

\* C14: each of the six window keys the detail view accepts has its length
\* in days (1, 7, 28, 90, 180, 365): the ranges requested are the current
\* and the previous range of that length, and when the metadata and both
\* series fetches are answered, the response has no error and a series of
\* exactly that many points.  The aggregate view accepts d1, d7 and d28 and
\* replaces any other key by d7.
C14_SixWindowLengths ==
    /\ WindowKey = ClaimedWindowKey
    /\ RouteWindow(world.windowParam, DashboardWindowValues) =
          IF world.windowParam \in {"d1", "d7", "d28"} THEN world.windowParam ELSE "d7"
    /\ dcalls.series > 0 =>
          /\ DetailRanges.current =
                ClaimedRange(ClaimedDays(ClaimedWindowKey), world.today)
          /\ DetailRanges.previous =
                ClaimedRange(ClaimedDays(ClaimedWindowKey),
                             world.today - ClaimedDays(ClaimedWindowKey))
    /\ dpc = "done" /\ dcalls.series > 0
          /\ world.series.current.ok /\ world.series.previous.ok =>
          /\ dresponse.error = NoError
          /\ Len(dresponse.series) = ClaimedDays(ClaimedWindowKey)

----------------------------------------------------------------------------
(* Claims about the functions *)

Applied(fn) == fpc = "done" /\ world.fn = fn

IsDateText(text) == text # InvalidDateText

\* C15: for every window key and every UTC day, getDateRanges returns two
\* ranges of dates with current.endDate the day before today, both ranges
\* exactly `days` days long with startDate <= endDate, previous.endDate the
\* day before current.startDate, and no day in both ranges.
C15_RangesContiguous ==
    Applied("getDateRanges") =>
        /\ \A range \in {fout.current, fout.previous} :
              IsDateText(range.startDate) /\ IsDateText(range.endDate)
        /\ fout.current.endDate = formatDate(world.today - 1)
        /\ \A range \in {fout.current, fout.previous} :
              /\ parseIsoDate(range.startDate) <= parseIsoDate(range.endDate)
              /\ parseIsoDate(range.endDate) - parseIsoDate(range.startDate) + 1
                    = ClaimedDays(world.windowKey)
        /\ parseIsoDate(fout.previous.endDate) = parseIsoDate(fout.current.startDate) - 1
        /\ (parseIsoDate(fout.previous.startDate)..parseIsoDate(fout.previous.endDate))
              \cap (parseIsoDate(fout.current.startDate)..parseIsoDate(fout.current.endDate))
              = {}

\* C16: in every NewUsersDelta, of fetchNewUsers and of the detail summary,
\* delta is current - previous, and pct is null exactly when previous is 0
\* and delta / previous otherwise.
C16_DeltaAndPct ==
    Applied("fetchNewUsers") \/ Applied("summary") =>
        /\ fout.delta = fout.current - fout.previous
        /\ fout.pct.isNull <=> fout.previous = 0
        /\ ~fout.pct.isNull =>
              /\ fout.pct.den # 0
              /\ fout.pct.num * fout.previous = fout.delta * fout.pct.den

\* a summary whose previous count is 0 and whose current count is not
C16_Witness ==
    /\ Applied("summary")
    /\ world.previousTotal = 0
    /\ world.currentTotal > 0
    /\ fout.pct.isNull
    /\ fout.delta = world.currentTotal

\* the ranges of the input of buildSeries, the values of the raw rows of a
\* date, and the date i days after the start of a range
InputRanges ==
    [current |-> ClaimedRange(ClaimedDays(world.windowKey), world.today),
     previous |-> ClaimedRange(ClaimedDays(world.windowKey),
                               world.today - ClaimedDays(world.windowKey))]

RawOf(which) == RawRows(world[which], InputRanges[which])

RawValues(which, dateText) ==
    {RawOf(which)[k].metric : k \in {k \in 1..Len(RawOf(which)) :
                                        RawOf(which)[k].dim = Compact(dateText)}}

DateAt(which, i) == formatDate(parseIsoDate(InputRanges[which].startDate) + i)

ValueClaimed(value, which, i) ==
    IF RawValues(which, DateAt(which, i)) = {} THEN value = 0
    ELSE value \in RawValues(which, DateAt(which, i))

\* C17: buildSeries returns exactly `days` points; point i (from 0) has the
\* date i days after current.startDate, as current the value of the raw
\* current row of that date, or 0 without one, and as previous the value of
\* the raw previous row of the date i days after previous.startDate, or 0.
C17_SeriesAligned ==
    Applied("buildSeries") =>
        /\ Len(fout.series) = ClaimedDays(world.windowKey)
        /\ \A i \in 0..(Len(fout.series) - 1) :
              /\ fout.series[i + 1].date = DateAt("current", i)
              /\ ValueClaimed(fout.series[i + 1].current, "current", i)
              /\ ValueClaimed(fout.series[i + 1].previous, "previous", i)

\* a week whose third day has a previous value and no current value of the
\* same offset, and whose first and last days have both
C17_Witness ==
    /\ Applied("buildSeries")
    /\ world.windowKey = "d7"
    /\ Len(fout.series) = 7
    /\ fout.series[1].current = 3 /\ fout.series[1].previous = 30
    /\ fout.series[3].current = 1 /\ fout.series[3].previous = 0
    /\ fout.series[7].current = 4

\* the raw rows are daily rows of the range: each dated by a day of the
\* range, no two by the same day
DailyRowsOfRange(which) ==
    /\ \A k \in 1..Len(RawOf(which)) :
          \E i \in 0..(ClaimedDays(world.windowKey) - 1) :
              RawOf(which)[k].dim = Compact(DateAt(which, i))
    /\ \A k, m \in 1..Len(RawOf(which)) :
          RawOf(which)[k].dim = RawOf(which)[m].dim => k = m

RawTotal(which) == SumSeq([k \in 1..Len(RawOf(which)) |-> RawOf(which)[k].metric])

\* C18: given the raw daily rows of the two ranges, the totals of the aligned
\* series are the sums of the values of all raw rows of the current and of
\* the previous range, and they are the sums of the current and previous
\* fields of the points.
C18_TotalsMatch ==
    Applied("buildSeries") =>
        /\ fout.currentTotal = SumSeq([i \in 1..Len(fout.series) |-> fout.series[i].current])
        /\ fout.previousTotal = SumSeq([i \in 1..Len(fout.series) |-> fout.series[i].previous])
        /\ DailyRowsOfRange("current") => fout.currentTotal = RawTotal("current")
        /\ DailyRowsOfRange("previous") => fout.previousTotal = RawTotal("previous")

\* 28 days with three daily rows in the current range and one in the previous
C18_Witness ==
    /\ Applied("buildSeries")
    /\ world.windowKey = "d28"
    /\ DailyRowsOfRange("current") /\ DailyRowsOfRange("previous")
    /\ Len(RawOf("current")) = 3
    /\ fout.currentTotal = 8
    /\ fout.previousTotal = 30

----------------------------------------------------------------------------
(* Claims about the rows *)

HasMetrics(row) == row.newUsers # NullUsers /\ row.error = NoError

HasError(row) == row.newUsers = NullUsers /\ row.error \notin {NoError, ""}

\* C19: every row of the returned list has exactly one of newUsers and error
\* populated: newUsers is not null if and only if error is null.
C19_MetricsXorError ==
    Returned =>
        \A row \in ResponseRows :
            /\ row.newUsers # NullUsers <=> row.error = NoError
            /\ HasMetrics(row) \/ HasError(row)

\* a response of two rows: one of metrics, and one of an error, of a failed
\* stream lookup or of a failed summary fetch
C19_Witness ==
    /\ Returned
    /\ Len(response) = 2
    /\ HasMetrics(response[1]) /\ response[1].newUsers.current > 0
    /\ HasError(response[2])
    /\ StreamLookupFails(response[2].propertyId) \/ ReportFails(response[2].propertyId)

----------------------------------------------------------------------------
(* Claims about the middleware *)

PasswordSet == world.password # NullStr /\ world.password # <<>>

\* the request is to / or to /api and what lies below it
Guarded ==
    \/ world.path = <<"/">>
    \/ /\ Len(world.path) >= 4
       /\ SubSeq(world.path, 1, 4) = <<"/", "a", "p", "i">>
       /\ (Len(world.path) = 4 \/ world.path[5] = "/")

\* the text after the first colon of the credentials, which hold one
AfterFirstColon(credentials) ==
    LET first == CHOOSE i \in 1..Len(credentials) :
                     credentials[i] = ":" /\ \A j \in 1..(i - 1) : credentials[j] # ":"
    IN SubSeq(credentials, first + 1, Len(credentials))

\* the request carries a Basic header whose credentials hold, after their
\* first colon, the configured password
PresentsPassword ==
    /\ world.header.kind = "credentials"
    /\ world.header.scheme \in {<<"B", "a", "s", "i", "c", " ">>,
                                <<"b", "a", "s", "i", "c", " ">>,
                                <<"B", "A", "S", "I", "C", " ", " ">>}
    /\ \E i \in 1..Len(world.header.credentials) : world.header.credentials[i] = ":"
    /\ AfterFirstColon(world.header.credentials) = world.password

\* C20: with DASHBOARD_PASSWORD set, a request to / or /api/* is let through
\* only if it carries a Basic Authorization header whose decoded credentials
\* have, after the first colon, the configured password, whatever the
\* username; every other such request (no header, another scheme, base64
\* that does not decode, no colon) gets a 401.  Without DASHBOARD_PASSWORD
\* every request is let through.
C20_BasicAuthGate ==
    Applied("middleware") =>
        IF PasswordSet
        THEN Guarded =>
                /\ fout.status \in {"next", "401"}
                /\ fout.status = "next" <=> PresentsPassword
        ELSE fout.status = "next"

\* a request to /api/d let through: the password holds a colon, the scheme is
\* in capitals and the base64 is sent without padding
C20_Witness ==
    /\ Applied("middleware")
    /\ world.password = <<"p", ":", "w">>
    /\ world.path = <<"/", "a", "p", "i", "/", "d">>
    /\ world.header.kind = "credentials"
    /\ world.header.credentials = <<"u", ":", "p", ":", "w">>
    /\ world.header.scheme = <<"B", "A", "S", "I", "C", " ", " ">>
    /\ world.header.form = "unpadded"
    /\ fout.status = "next"

----------------------------------------------------------------------------
(* Claims about the runners *)

\* how many times the worker of index i was invoked in a call
Invocations(st, i) == Cardinality({k \in 1..Len(st.started) : st.started[k] = i})

\* every index of the input had its worker invoked once and its slot written once
EveryIndexOnce(st) ==
    /\ Len(st.started) = st.n
    /\ DOMAIN st.writes = 0..(st.n - 1)
    /\ DOMAIN st.results = 0..(st.n - 1)
    /\ \A i \in 0..(st.n - 1) : Invocations(st, i) = 1 /\ st.writes[i] = 1

\* C21: in both calls of runLimited that getDashboardData makes, for every
\* interleaving of the runners: no index is claimed by two runners (no index
\* is invoked twice and two runners never await the same index) and none is
\* skipped (the indices are claimed in order 0, 1, 2, ...); no slot is
\* written twice, and only the slot of an index whose worker was invoked; and
\* once the runners have ended the worker was invoked exactly once for every
\* index 0..n-1 of the input and every result slot was written exactly once.
C21_EachIndexOnce ==
    \A st \in Stages :
        /\ \A k \in 1..Len(st.started) : st.started[k] = k - 1
        /\ Len(st.started) <= st.n
        /\ \A i \in 0..(st.n - 1) : Invocations(st, i) <= 1
        /\ \A r1, r2 \in RLAwaiting(st) : r1 # r2 => st.runners[r1] # st.runners[r2]
        /\ DOMAIN st.writes = DOMAIN st.results
        /\ \A i \in DOMAIN st.writes : st.writes[i] = 1 /\ Invocations(st, i) = 1
        /\ RLAllFinished(st) => EveryIndexOnce(st)

\* both stages over six properties and five runners have ended: the six
\* indices were claimed in order, the sixth by the runner whose worker
\* settled first, and then each runner claimed once more and ended
C21_Witness ==
    /\ pc = "stage2"
    /\ rl1.n = 6 /\ rl2.n = 6
    /\ RLAllFinished(rl1) /\ RLAllFinished(rl2)
    /\ EveryIndexOnce(rl1) /\ EveryIndexOnce(rl2)
    /\ rl2.started = <<0, 1, 2, 3, 4, 5>>
    /\ rl2.nextIndex = 11

----------------------------------------------------------------------------
(* Claims about the requests *)

\* the results of the report stage about a property
ReportResultsOf(id) ==
    {i \in DOMAIN rl2.results : rl2.results[i].propertyId = id}

ErrorRowsAbout(id) ==
    {i \in 1..Len(errorRows) : errorRows[i].propertyId = id}

\* the pages of a listing, from the first to the last one requested
PagesOf(remote) == Cardinality(DOMAIN remote)

\* C22: within one request no remote call is repeated: a filtered property
\* gets at most one data-stream listing, of at most one request per page, and
\* at most one summary request; when the request returns, every filtered
\* property had its listing, a failed listing is that property's one error
\* row, every property with a web stream had its summary request, and a failed
\* summary request is that property's one row, an error row.
C22_NoRetry ==
    /\ calls.token <= 1
    /\ calls.catalog <= PagesOf(world.catalog)
    /\ DOMAIN calls.pages = DOMAIN calls.streams
    /\ \A id \in DOMAIN calls.streams :
          /\ id \in FilteredIds
          /\ calls.streams[id] <= 1
          /\ calls.pages[id] <= PagesOf(world.streams[id])
    /\ \A id \in DOMAIN calls.reports :
          /\ id \in FilteredIds
          /\ calls.reports[id] <= 1
    /\ Returned =>
          \A id \in FilteredIds :
              /\ CountOf(calls.streams, id) = 1
              /\ CountOf(calls.pages, id) = listDataStreams(world.streams[id]).requests
              /\ CountOf(calls.reports, id) = IF HasWebStream(id) THEN 1 ELSE 0
              /\ StreamLookupFails(id) =>
                    /\ Cardinality(ErrorRowsAbout(id)) = 1
                    /\ \A i \in ErrorRowsAbout(id) : ErrorSet(errorRows[i].error)
              /\ (HasWebStream(id) /\ ReportFails(id)) =>
                    /\ Cardinality(ReportResultsOf(id)) = 1
                    /\ \A i \in ReportResultsOf(id) :
                          /\ ErrorSet(rl2.results[i].error)
                          /\ rl2.results[i].newUsers = NullUsers

\* a request that returned after the listing of one property failed on its
\* second page and the summary request of another property failed
C22_Witness ==
    /\ Returned
    /\ \E id \in FilteredIds :
          /\ StreamLookupFails(id)
          /\ CountOf(calls.pages, id) = 2
    /\ \E id \in FilteredIds : HasWebStream(id) /\ ReportFails(id)

----------------------------------------------------------------------------
(* Claims about the listings *)

IsListing == Applied("listDataStreams") \/ Applied("listPropertySummaries")

ListedRemote == IF world.fn = "listDataStreams" THEN world.remote ELSE world.catalog

\* the answer to the k-th request of the listing
PageAt(k) == ListedRemote[fout.tokens[k]]

\* what a page gives to the result: its streams, or the property summaries of
\* its account summaries that have an id
ItemsOfPage(page) ==
    IF world.fn = "listDataStreams" THEN page.items
    ELSE LET kept == SelectSeq(Flatten(page.items), HasPropertyId)
         IN [i \in 1..Len(kept) |-> ToSummary(kept[i])]

RECURSIVE ItemsUpTo(_)
ItemsUpTo(k) == IF k = 0 THEN <<>> ELSE ItemsUpTo(k - 1) \o ItemsOfPage(PageAt(k))

\* C23: a listing requests the first page without page token, then each next
\* page with the nextPageToken of the page just received, and stops at the
\* first page without nextPageToken; it returns the items of all pages
\* in page order.  When a page request fails no further page is requested and
\* the listing fails without a partial result.
C23_Pagination ==
    IsListing =>
        LET last == Len(fout.tokens) IN
        /\ last >= 1
        /\ fout.tokens[1] = ""
        /\ \A k \in 1..(last - 1) :
              /\ PageAt(k).ok
              /\ PageAt(k).next # ""
              /\ fout.tokens[k + 1] = PageAt(k).next
        /\ ~PageAt(last).ok \/ PageAt(last).next = ""
        /\ fout.ok <=> PageAt(last).ok
        /\ fout.items = IF PageAt(last).ok THEN ItemsUpTo(last) ELSE <<>>

\* three pages listed, the second without items, while the remote holds
\* nothing else
C23_Witness ==
    /\ Applied("listPropertySummaries")
    /\ fout.ok
    /\ fout.tokens = <<"", "t1", "t2">>
    /\ ItemsOfPage(PageAt(2)) = <<>>
    /\ Len(fout.items) = 4

----------------------------------------------------------------------------
(* Claims about the summary report *)

\* the rows of the report that carry this label as their first dimension value
RowsLabelled(label) ==
    {k \in 1..Len(world.rows) :
        Len(world.rows[k].dims) >= 1 /\ world.rows[k].dims[1] = label}

LastOf(ks) == CHOOSE k \in ks : \A j \in ks : j <= k

FirstMetric(row) == IF Len(row.metrics) >= 1 THEN row.metrics[1] ELSE 0

\* the value of the last row of the label, 0 without one
ValueLabelled(label) ==
    IF RowsLabelled(label) = {} THEN 0
    ELSE FirstMetric(world.rows[LastOf(RowsLabelled(label))])

\* the response is one row without dimension values
SingleUnlabelledRow == Len(world.rows) = 1 /\ Len(world.rows[1].dims) = 0

\* C24: of a summary report that is not one row without dimension values,
\* current is the value of the last row labelled date_range_0 and previous
\* that of the last row labelled date_range_1, 0 for a label without row; rows
\* of another label change nothing, and a report without rows gives 0 and 0
\* with pct null.
C24_TagMatch ==
    (Applied("fetchNewUsers") /\ ~SingleUnlabelledRow) =>
        /\ fout.current = ValueLabelled("date_range_0")
        /\ fout.previous = ValueLabelled("date_range_1")
        /\ world.rows = <<>> =>
              fout = [current |-> 0, previous |-> 0, delta |-> 0, pct |-> NullPct]

\* four rows: date_range_1 twice, a row of another label between them and
\* date_range_0 once; the later row of date_range_1 gives previous
C24_Witness ==
    /\ Applied("fetchNewUsers")
    /\ Len(world.rows) = 4
    /\ RowsLabelled("date_range_1") = {1, 4}
    /\ RowsLabelled("date_range_2") = {2}
    /\ world.rows[1].metrics[1] # world.rows[4].metrics[1]
    /\ world.rows[2].metrics[1] # 0
    /\ fout.previous = world.rows[4].metrics[1]
    /\ fout.current = world.rows[3].metrics[1]

\* C25: of a summary report that is exactly one row without dimension
\* values, current is the first metric value and previous the second when the
\* row has at least two; with fewer than two, both are 0.
C25_SingleRowPositional ==
    (Applied("fetchNewUsers") /\ SingleUnlabelledRow) =>
        IF Len(world.rows[1].metrics) >= 2
        THEN /\ fout.current = world.rows[1].metrics[1]
             /\ fout.previous = world.rows[1].metrics[2]
        ELSE /\ fout.current = 0
             /\ fout.previous = 0

\* one row without dimension values and with three metric values, the first
\* two of them different and not 0
C25_Witness ==
    /\ Applied("fetchNewUsers")
    /\ SingleUnlabelledRow
    /\ Len(world.rows[1].metrics) = 3
    /\ fout.current = world.rows[1].metrics[1]
    /\ fout.previous = world.rows[1].metrics[2]
    /\ fout.current # fout.previous
    /\ fout.previous # 0

----------------------------------------------------------------------------
(* Claims about the summary of the detail *)

DetailSucceeded == dpc = "done" /\ dresponse.error = NoError

\* the sums of the first k points of the returned series
RECURSIVE CurrentUpTo(_)
CurrentUpTo(k) ==
    IF k = 0 THEN 0 ELSE CurrentUpTo(k - 1) + dresponse.series[k].current

RECURSIVE PreviousUpTo(_)
PreviousUpTo(k) ==
    IF k = 0 THEN 0 ELSE PreviousUpTo(k - 1) + dresponse.series[k].previous

\* C26: in a response without error, summary.current is the sum of the
\* current values and summary.previous the sum of the previous values of the
\* points of the returned series; and the reports the request issued are the
\* two series reports, beside one token request, one property request and one
\* stream listing.
C26_SummaryFromSeries ==
    DetailSucceeded =>
        /\ dresponse.summary # NullUsers
        /\ dresponse.summary.current = CurrentUpTo(Len(dresponse.series))
        /\ dresponse.summary.previous = PreviousUpTo(Len(dresponse.series))
        /\ dcalls = [token |-> 1, metadata |-> 1,
                     streams |-> PagesOf(world.streams), series |-> 2]

\* a week of points whose current values add up to 8, while the report held a
\* further row without date
C26_Witness ==
    /\ DetailSucceeded
    /\ Len(dresponse.series) = 7
    /\ dresponse.summary.current = 8
    /\ dresponse.summary.previous = 30
    /\ Len(SeriesAnswer(world.series.current, DetailRanges.current).rows) = 4

----------------------------------------------------------------------------
(* Claims about the client pages *)

\* the request ids taken so far
Issued == DOMAIN inFlight \cup DOMAIN settled

\* the request whose load completes in this step
Completing == DOMAIN settled' \ DOMAIN settled

\* the requests that completed with a payload
Successful == {id \in DOMAIN settled : Succeeds(settled[id].outcome)}

\* those of them that were the latest request when they completed
AppliedLoads == {id \in Successful : settled[id].latest}

Latest(ids) == CHOOSE id \in ids : \A other \in ids : other <= id

AllLoadsCompleted == inFlight = <<>>

\* every load takes the id after the last, and the data displayed is that of
\* a request
IdsInSequence ==
    /\ Issued = 1..requestIdRef
    /\ pageData # NoData => pageData.request \in Successful

\* the completion of a superseded request leaves data and error as they are,
\* and that of the latest request displays its payload or its failure
StaleDropped ==
    \A id \in Completing :
        IF id # requestIdRef
        THEN pageData' = pageData /\ pageError' = pageError
        ELSE /\ Succeeds(settled'[id].outcome) =>
                    /\ pageData' # NoData
                    /\ pageData'.request = id
                    /\ pageData'.window = inFlight[id]
             /\ ~Succeeds(settled'[id].outcome) => pageData' = pageData
             /\ settled'[id].outcome \notin {"ok", "okError", "abort"} =>
                    pageError' = ThrownMessage(world.page, settled'[id].outcome)

\* C27 as stated: ids in sequence, a response or failure applied only if its
\* request is the latest issued at completion, and once all loads have
\* completed the data displayed is not that of a request older than the
\* latest successful one.
C27_Original ==
    /\ []IdsInSequence
    /\ [][StaleDropped]_vars
    /\ [](AllLoadsCompleted /\ pageData # NoData =>
            pageData.request >= Latest(Successful))

\* C27: ids in sequence, a response or failure applied only if its request
\* is the latest issued at completion, and at every moment the data displayed
\* is that of the latest request that completed with a payload while it was
\* the latest issued, or none without such a request.
C27_LatestWins ==
    /\ []IdsInSequence
    /\ [][StaleDropped]_vars
    /\ [](IF AppliedLoads = {} THEN pageData = NoData
          ELSE pageData # NoData /\ pageData.request = Latest(AppliedLoads))

\* the data of request 1 stays displayed after request 2, superseded by
\* request 3, completed with a payload and request 3 failed
C27_Witness ==
    /\ AllLoadsCompleted
    /\ requestIdRef = 3
    /\ pageData # NoData
    /\ pageData.request = 1
    /\ Successful = {1, 2}
    /\ ~settled[2].latest
    /\ settled[3].outcome = "network"
    /\ pageError = "Failed to fetch"

\* C30: loading is set when a load starts; the completion of a superseded
\* request leaves it as it is, so it stays set while the latest request is in
\* flight, and the completion of the latest request, with a payload or with a
\* failure, clears it.
C30_LoadingFollowsLatest ==
    /\ [](requestIdRef \in DOMAIN inFlight => pageLoading)
    /\ [](requestIdRef \in DOMAIN settled => ~pageLoading)
    /\ [][requestIdRef' # requestIdRef => pageLoading']_vars
    /\ [][\A id \in Completing :
            pageLoading' = IF id = requestIdRef THEN FALSE ELSE pageLoading]_vars

\* loading still set after request 1 completed while request 2 is in flight
C30_Witness ==
    /\ requestIdRef = 2
    /\ 1 \in DOMAIN settled
    /\ 2 \in DOMAIN inFlight
    /\ pageLoading

----------------------------------------------------------------------------
(* Claims about the two stages *)

\* the remote calls in flight: the token request, the catalog listing, and
\* one per worker awaited in either stage
CallsInFlight ==
    (IF pc \in {"token", "catalog"} THEN 1 ELSE 0)
        + Cardinality(RLAwaiting(rl1)) + Cardinality(RLAwaiting(rl2))

SummaryRequested == DOMAIN calls.reports # {}

TargetIdSet == {reportTargets[i].summary.propertyId : i \in 1..Len(reportTargets)}

\* C28: no summary request is issued before every stream lookup has settled,
\* so the workers of the two stages are never awaited together and at most 5
\* remote calls are in flight; the summary targets, and the properties a
\* summary is requested for, are the filtered properties whose stream lookup
\* returned a web stream.
C28_StagesInSequence ==
    /\ SummaryRequested \/ RLAwaiting(rl2) # {} =>
          /\ RLAllFinished(rl1)
          /\ DOMAIN rl1.results = 0..(Len(filtered) - 1)
          /\ \A id \in FilteredIds : CountOf(calls.streams, id) = 1
    /\ RLAwaiting(rl1) = {} \/ RLAwaiting(rl2) = {}
    /\ CallsInFlight <= 5
    /\ DOMAIN calls.reports \subseteq {id \in FilteredIds : HasWebStream(id)}
    /\ pc \in {"stage2", "done"} =>
          TargetIdSet = {id \in FilteredIds : HasWebStream(id)}
    /\ Returned => DOMAIN calls.reports = {id \in FilteredIds : HasWebStream(id)}

\* the report stage with a summary request in flight, after the stream lookup
\* of another property failed
C28_Witness ==
    /\ pc = "stage2"
    /\ RLAwaiting(rl2) # {}
    /\ SummaryRequested
    /\ \E id \in FilteredIds : StreamLookupFails(id) /\ id \notin TargetIdSet
    /\ Len(filtered) > Len(reportTargets)

----------------------------------------------------------------------------
(* Claims about the end of runLimited *)

RLResolved == rlPhase = "resolved"

\* every worker invocation has settled by fulfilling
AllSettled ==
    /\ Len(rl.started) = rl.n
    /\ Len(rlOrder) = rl.n
    /\ RLInFlight(rl) = {}

\* C29: when no worker invocation rejects and each settles, runLimited
\* resolves; it resolves only after all n worker invocations have settled;
\* with no item it starts no worker and resolves with an empty result.
C29_Resolves ==
    /\ [](RLResolved => AllSettled)
    /\ [](rl.n = 0 => rl.started = <<>> /\ (RLResolved => rlReturn = <<>>))
    /\ ([]~rl.rejected) => <>RLResolved

\* a call with four items and two runners that resolved
C29_Witness ==
    /\ RLResolved
    /\ rl.n = 4
    /\ rl.limit = 2
    /\ AllSettled
    /\ DOMAIN rlReturn = 0..3

====
